---- MODULE Spec2Model ----
(***************************************************************************)
(* Session and request-interception subsystem of the wiki front end:       *)
(* api/client (credential store, interceptors, return-to), authSlice       *)
(* (login / init / logout thunks and reducers), LoginForm and ProfilePage  *)
(* (post-login resolvers).                                                  *)
(*                                                                          *)
(* Strings that the code inspects (paths, identities, header values) are   *)
(* sequences of one-character strings, so that startsWith, replace, trim   *)
(* and concatenation are computed and not assumed.  Time is Date.now() in  *)
(* milliseconds.  location.href = x is modelled as the location becoming   *)
(* x at once, which is the Navigator{currentPath, redirect} reading of the *)
(* browser the classifier's path comparisons rely on.                       *)
(***************************************************************************)
EXTENDS Integers, Sequences, FiniteSets, Bags, TLC

VARIABLES
    ENV_AUTH_MODE,   \* import.meta.env.VITE_AUTH_MODE, read once
    ENV_BASE,        \* import.meta.env.BASE_URL, read once
    now,             \* Date.now()
    localStorage,    \* key -> raw entry
    sessionStorage,  \* value under RETURN_TO_KEY (<<>> when absent)
    defaultAuth,     \* api.defaults.headers.common.Authorization (<<>> when unset)
    location,        \* [pathname, search, from]
    auth,            \* authSlice state [me, isAuthed, mode, status, error]
    inflight,        \* requests sent and not yet answered
    pc,              \* startup position: "boot" | "run"
    form,            \* LoginForm: [loading, ok, fail]: the flag, and the settled logins
                     \* whose continuation in handleLogin has not run yet
    effectPending,   \* ProfilePage redirect effect scheduled
    delivered,       \* the settled request handed to its caller, not yet continued
    hist,            \* history: the last fulfilled login, the current burst of failures
    readResult,      \* what the last stand-alone credential read returned
    returned,        \* the last stand-alone saveReturnTo and the consumptions after it
    faults,          \* the localStorage methods that throw in this browser
    profile,         \* profileSlice's profile, and where the updateUser call stands
    article,         \* the article's mainContent on the server, and the addContent call
    img              \* the <img> elements: src, data-original, data-fallback-step

vars == << ENV_AUTH_MODE, ENV_BASE, now, localStorage, sessionStorage,
           defaultAuth, location, auth, inflight, pc, form, effectPending,
           delivered, hist, readResult, returned, faults, profile, article, img >>

(***************************************************************************)
(* Bounds of the model                                                      *)
(***************************************************************************)
MaxDays == 2
MaxInflight == 2
MaxBurst == 3
MaxBlocks == 4
MaxErrors == 3

(***************************************************************************)
(* Strings                                                                  *)
(***************************************************************************)
StartsWith(s, p) == Len(s) >= Len(p) /\ SubSeq(s, 1, Len(p)) = p

\* index of the first occurrence of pat in s, 0 when there is none
IndexOf(s, pat) ==
    LET hits == { i \in 1..(Len(s) - Len(pat) + 1) : SubSeq(s, i, i + Len(pat) - 1) = pat }
    IN IF hits = {} THEN 0 ELSE CHOOSE i \in hits : \A j \in hits : i <= j

\* String.prototype.replace(pat, "") with a string pattern: first occurrence only
ReplaceFirstWithEmpty(s, pat) ==
    IF pat = <<>> THEN s
    ELSE LET i == IndexOf(s, pat)
         IN IF i = 0 THEN s
            ELSE SubSeq(s, 1, i - 1) \o SubSeq(s, i + Len(pat), Len(s))

RECURSIVE StripTrailingSlashes(_)
\* .replace(/\/+$/, "")
StripTrailingSlashes(s) ==
    IF s # <<>> /\ s[Len(s)] = "/" THEN StripTrailingSlashes(SubSeq(s, 1, Len(s) - 1))
    ELSE s

RECURSIVE TrimLeft(_)
TrimLeft(s) == IF s # <<>> /\ s[1] = " " THEN TrimLeft(Tail(s)) ELSE s

RECURSIVE TrimRight(_)
TrimRight(s) ==
    IF s # <<>> /\ s[Len(s)] = " " THEN TrimRight(SubSeq(s, 1, Len(s) - 1)) ELSE s

\* String.prototype.trim
Trim(s) == TrimLeft(TrimRight(s))

Digits == << "0", "1", "2", "3", "4", "5", "6", "7", "8", "9" >>

RECURSIVE NumToStr(_)
\* `${status}` for a non-negative integer
NumToStr(n) ==
    IF n < 10 THEN << Digits[n + 1] >>
    ELSE NumToStr(n \div 10) \o << Digits[(n % 10) + 1] >>

DigitVal(c) == CHOOSE d \in 0..9 : Digits[d + 1] = c
IsDigit(c) == \E d \in 0..9 : Digits[d + 1] = c

RECURSIVE DecValue(_)
DecValue(s) == IF s = <<>> THEN 0 ELSE 10 * DecValue(SubSeq(s, 1, Len(s) - 1)) + DigitVal(s[Len(s)])

(***************************************************************************)
(* Configuration (api/client)                                               *)
(***************************************************************************)
AUTH_MODE == ENV_AUTH_MODE
BASE_URL == StripTrailingSlashes(IF ENV_BASE = <<>> THEN << "/" >> ELSE ENV_BASE)

AUTH_BASIC_KEY_PRIMARY == "fw_auth"
AUTH_BASIC_KEY_SECOND == "fw_auth_basic"
AUTH_LOCAL_KEY == "fw_auth_local"
StorageKeys == { AUTH_BASIC_KEY_PRIMARY, AUTH_BASIC_KEY_SECOND, AUTH_LOCAL_KEY }

DAY_MS == 24 * 3600 * 1000

(***************************************************************************)
(* localStorage values.  A raw entry is the stored text by what JSON.parse *)
(* makes of it: no entry, the empty text, text that does not parse, the    *)
(* text null, or an object whose three fields are each missing or a JSON   *)
(* value.                                                                   *)
(***************************************************************************)
Absent == [t |-> "absent"]
EmptyRaw == [t |-> "empty"]
Garbage == [t |-> "garbage"]
JsonNull == [t |-> "null"]

Missing == [k |-> "missing"]
JNull == [k |-> "null"]
JStr(s) == [k |-> "str", v |-> s]
JNum(n) == [k |-> "num", v |-> n]

Obj(u, p, e) == [t |-> "obj", username |-> u, password |-> p, exp |-> e]

\* JSON.stringify({ username, password, exp })
BasicJson(username, password, exp) == Obj(JStr(username), JStr(password), JNum(exp))
\* JSON.stringify({ username, exp })
LocalJson(username, exp) == Obj(JStr(username), Missing, JNum(exp))

\* !x for a field of a parsed object
Falsy(f) ==
    \/ f.k \in { "missing", "null" }
    \/ f.k = "str" /\ f.v = <<>>
    \/ f.k = "num" /\ f.v = 0

NaN == [nan |-> TRUE, v |-> 0]
Num(n) == [nan |-> FALSE, v |-> n]

\* Number(x)
ToNumber(f) ==
    CASE f.k = "num" -> Num(f.v)
      [] f.k = "null" -> Num(0)
      [] f.k = "missing" -> NaN
      [] f.k = "str" ->
            IF \A i \in 1..Len(f.v) : IsDigit(f.v[i]) THEN Num(DecValue(f.v)) ELSE NaN

\* a > b for numbers, false when either is NaN
Greater(a, b) == ~a.nan /\ ~b.nan /\ a.v > b.v

NoRecord == [t |-> "none"]

RemoveItem(ls, key) == [ls EXCEPT ![key] = Absent]
SetItem(ls, key, raw) == [ls EXCEPT ![key] = raw]

\* Date.now() > Number(parsed.exp)
ExpiredNever(exp, t) == FALSE
Expired(exp, t) == Greater(Num(t), ToNumber(exp))

\* localStorage.getItem / setItem / removeItem throws
Throws(method) == method \in faults

\* localStorage.removeItem(key); return null, in a read: inside the try the throw of
\* removeItem is caught by a catch block that calls removeItem again, so it leaves
\* the read either way
Purge(ls, key) ==
    IF Throws("removeItem") THEN [val |-> NoRecord, ls |-> ls, thrown |-> TRUE]
    ELSE [val |-> NoRecord, ls |-> RemoveItem(ls, key), thrown |-> FALSE]

\* readBasicAuth.tryRead(key): the value returned, the storage left behind, and
\* whether the call threw instead of returning
TryRead(ls, key, t) ==
    LET raw == ls[key]
    IN  IF Throws("getItem") THEN Purge(ls, key)
        ELSE
        CASE raw.t \in { "absent", "empty" } -> [val |-> NoRecord, ls |-> ls, thrown |-> FALSE]
          [] raw.t = "garbage" -> Purge(ls, key)
          [] raw.t = "null" -> Purge(ls, key)
          [] raw.t = "obj" ->
                IF Falsy(raw.username) \/ Falsy(raw.password) \/ Expired(raw.exp, t)
                THEN Purge(ls, key)
                ELSE [val |-> raw, ls |-> ls, thrown |-> FALSE]

ReadBasicAuthPrimaryOnly(ls, t) == TryRead(ls, AUTH_BASIC_KEY_PRIMARY, t)
\* tryRead(AUTH_BASIC_KEY_PRIMARY) || tryRead(AUTH_BASIC_KEY_SECOND)
ReadBasicAuth(ls, t) ==
    LET a == TryRead(ls, AUTH_BASIC_KEY_PRIMARY, t)
    IN  IF a.thrown \/ a.val # NoRecord THEN a ELSE TryRead(a.ls, AUTH_BASIC_KEY_SECOND, t)

ReadLocalAuth(ls, t) ==
    LET raw == ls[AUTH_LOCAL_KEY]
    IN  IF Throws("getItem") THEN Purge(ls, AUTH_LOCAL_KEY)
        ELSE
        CASE raw.t \in { "absent", "empty" } -> [val |-> NoRecord, ls |-> ls, thrown |-> FALSE]
          [] raw.t = "garbage" -> Purge(ls, AUTH_LOCAL_KEY)
          [] raw.t = "null" -> Purge(ls, AUTH_LOCAL_KEY)
          [] raw.t = "obj" ->
                IF Falsy(raw.username) \/ Expired(raw.exp, t)
                THEN Purge(ls, AUTH_LOCAL_KEY)
                ELSE [val |-> raw, ls |-> ls, thrown |-> FALSE]

(***************************************************************************)
(* Paths and header values                                                  *)
(***************************************************************************)
Slash == << "/" >>
P_home == << "/" >>
P_edit == << "/", "e", "d", "i", "t", "/", "4", "2" >>
P_new == << "/", "n", "e", "w" >>
P_profile == << "/", "p", "r", "o", "f", "i", "l", "e" >>
P_register == << "/", "r", "e", "g", "i", "s", "t", "e", "r" >>
P_network == << "/", "n", "e", "t", "w", "o", "r", "k" >>
P_error == << "/", "e", "r", "r", "o", "r" >>
Q_expired == << "?", "e", "x", "p", "i", "r", "e", "d", "=", "1" >>
ProfileExpired == P_profile \o Q_expired

NoHeader == <<>>
NoPath == <<>>
One == << "1" >>

\* `Basic ${btoa(`${username}:${password}`)}`: btoa is one-to-one, so the header
\* value is named by the text it encodes
BasicHeader(username, password) == username \o << ":" >> \o password

\* `${x}` of a truthy field of a stored object
FieldText(f) == IF f.k = "str" THEN f.v ELSE IF f.k = "num" THEN NumToStr(f.v) ELSE <<>>

RecordHeader(rec) == BasicHeader(FieldText(rec.username), FieldText(rec.password))

\* the pathname and search parts of an href or of a router target
ParseHref(href) ==
    LET q == IndexOf(href, << "?" >>)
    IN  IF q = 0 THEN [pathname |-> href, search |-> <<>>]
        ELSE [pathname |-> SubSeq(href, 1, q - 1), search |-> SubSeq(href, q, Len(href))]

Loc(pathname, search, from) == [pathname |-> pathname, search |-> search, from |-> from]

Href(loc) == loc.pathname \o loc.search

\* go(to): the location after the call
GoNowhere(loc, to) == loc
Go(loc, to) ==
    LET path == IF StartsWith(to, Slash) THEN to ELSE Slash \o to
        href == BASE_URL \o path
        h == ParseHref(href)
    IN  IF Href(loc) # href THEN Loc(h.pathname, h.search, NoPath) ELSE loc

\* navigate(to, { replace: true }) of the router
RouterNav(to) == LET h == ParseHref(to) IN Loc(h.pathname, h.search, NoPath)

WhitelistPrefixes == { P_error, P_network, P_profile, P_register }

\* /^\/(error(\/|$)|network(\/|$)|profile(\/|$)|register(\/|$))/.test(path.replace(BASE_URL, ""))
IsWhitelistedNone(path) == FALSE
IsWhitelisted(path) ==
    LET r == ReplaceFirstWithEmpty(path, BASE_URL)
    IN  \E w \in WhitelistPrefixes :
            /\ StartsWith(r, w)
            /\ (Len(r) = Len(w) \/ r[Len(w) + 1] = "/")

\* !isWhitelisted && path !== `${BASE_URL}/profile`
AuthRedirectNever(path) == FALSE
AuthRedirectAlways(path) == TRUE
AuthRedirectOffProfile(path) == path # BASE_URL \o P_profile
AuthRedirectAllowed(path) == ~IsWhitelisted(path) /\ path # BASE_URL \o P_profile

\* const handled = [404, 409, 418, 429, 500, 502, 503, 504]
HandledStatusesFew == { 404, 500 }
HandledStatuses == { 404, 409, 418, 429, 500, 502, 503, 504 }

(***************************************************************************)
(* Credential writes (api/client)                                           *)
(***************************************************************************)
World(ls, ss, def, loc) == [ls |-> ls, ss |-> ss, def |-> def, loc |-> loc]

\* rememberBasicAuth(username, password, days): storage and default header after
RememberBasicAuthNothing(w, username, password, days) == w
RememberBasicAuth(w, username, password, days) ==
    [w EXCEPT !.ls = SetItem(w.ls, AUTH_BASIC_KEY_PRIMARY,
                             BasicJson(username, password, now + days * DAY_MS)),
              !.def = BasicHeader(username, password)]

RememberLocalAuth(w, username, days) ==
    [w EXCEPT !.ls = SetItem(w.ls, AUTH_LOCAL_KEY, LocalJson(username, now + days * DAY_MS))]

RememberHybridAuth(w, username, password, days) ==
    RememberLocalAuth(RememberBasicAuth(w, username, password, days), username, days)

RememberAuth(w, username, password, days) ==
    IF AUTH_MODE = "local" THEN RememberLocalAuth(w, username, days)
    ELSE IF AUTH_MODE = "hybrid" THEN RememberHybridAuth(w, username, password, days)
    ELSE RememberBasicAuth(w, username, password, days)

\* bootstrapAuthFromStorage()
BootstrapAuthFromStorage(w) ==
    IF AUTH_MODE # "local"
    THEN LET s == ReadBasicAuth(w.ls, now)
         IN  IF s.val = NoRecord THEN [w EXCEPT !.ls = s.ls]
             ELSE [w EXCEPT !.ls = s.ls, !.def = RecordHeader(s.val)]
    ELSE [w EXCEPT !.def = NoHeader]

\* dropAuth()
DropAuthKeysOnly(w) == [w EXCEPT !.ls = [k \in StorageKeys |-> Absent]]
DropAuth(w) ==
    IF Throws("removeItem") THEN [w EXCEPT !.def = NoHeader]
    ELSE [w EXCEPT !.ls = [k \in StorageKeys |-> Absent], !.def = NoHeader]

\* saveReturnTo(path)
SaveReturnToPathOnly(w, path) == [w EXCEPT !.ss = w.loc.pathname]
SaveReturnTo(w, path) ==
    [w EXCEPT !.ss = IF path # <<>> THEN path ELSE Href(w.loc)]

\* consumeReturnTo(): the value returned and the session storage left behind
ConsumeReturnToKeeps(ss) == [val |-> ss, ss |-> ss]
ConsumeReturnTo(ss) == [val |-> ss, ss |-> NoPath]

(***************************************************************************)
(* Interceptors (api/client)                                                *)
(***************************************************************************)
NoReq == [kind |-> "none", auth |-> NoHeader, skip |-> <<>>, u |-> <<>>, p |-> <<>>]
Req(kind, hdr, skip, u, p) == [kind |-> kind, auth |-> hdr, skip |-> skip, u |-> u, p |-> p]

\* request interceptor: the Authorization header the request leaves with, given the
\* header of the merged config (the call's own header, else the client default),
\* and the storage left behind by the read
RequestInterceptorAnyMode(ls, merged) ==
    LET s == ReadBasicAuth(ls, now)
    IN  IF s.val # NoRecord THEN [auth |-> RecordHeader(s.val), ls |-> s.ls]
        ELSE [auth |-> merged, ls |-> s.ls]
RequestInterceptor(ls, merged) ==
    IF AUTH_MODE # "local"
    THEN LET s == ReadBasicAuth(ls, now)
         IN  IF s.val # NoRecord THEN [auth |-> RecordHeader(s.val), ls |-> s.ls]
             ELSE [auth |-> merged, ls |-> s.ls]
    ELSE [auth |-> merged, ls |-> ls]

\* axios merges the call's headers over api.defaults.headers.common
MergedAuth(own, def) == IF own # NoHeader THEN own ELSE def

NetworkError == 0

\* (status === 401 || status === 403) && AUTH_MODE === "local"
LocalIgnoresNever(status) == FALSE
LocalIgnores(status) == status \in { 401, 403 } /\ AUTH_MODE = "local"

\* getHeaderValue(err.config?.headers, "x-skip-auth-redirect") === "1"
SkipAuthRedirectNever(headerVal) == FALSE
SkipAuthRedirect(headerVal) == headerVal = One

\* location.pathname.startsWith(`${BASE_URL}/network`)
AtNetworkAlways(path) == TRUE
AtNetwork(path) == StartsWith(path, BASE_URL \o P_network)

\* response interceptor, error branch: the world after it
ResponseError(w, status, skipHeader) ==
    IF status = NetworkError
    THEN IF ~AtNetwork(w.loc.pathname)
         THEN [w EXCEPT !.loc = Go(w.loc, P_network)]
         ELSE w
    ELSE
    LET path == w.loc.pathname
        search == w.loc.search
    IN  IF LocalIgnores(status) THEN w
        ELSE IF status \in { 401, 403 } /\ ~SkipAuthRedirect(skipHeader)
        THEN LET d == DropAuth(w)
             IN  IF AuthRedirectAllowed(path)
                 THEN LET s == SaveReturnTo(d, path \o search)
                      IN  [s EXCEPT !.loc = Go(s.loc, ProfileExpired)]
                 ELSE d
        ELSE IF status \in HandledStatuses
        THEN IF ~StartsWith(path, BASE_URL \o P_error \o Slash)
             THEN [w EXCEPT !.loc = Go(w.loc, P_error \o Slash \o NumToStr(status))]
             ELSE w
        ELSE w

\* how the promise of a call settles, and with what
Fulfilled(status) == [settled |-> "fulfilled", status |-> status]
\* Promise.reject(err)
Swallowed(status) == [settled |-> "fulfilled", status |-> status]
Rejected(status) == [settled |-> "rejected", status |-> status]

\* response interceptor: what it returns to the caller, branch by branch
ResponseSettles(status, skipHeader) ==
    IF status = 200 THEN Fulfilled(status)
    ELSE IF status = NetworkError THEN Rejected(status)
    ELSE IF LocalIgnores(status) THEN Rejected(status)
    ELSE IF status \in { 401, 403 } /\ ~SkipAuthRedirect(skipHeader) THEN Rejected(status)
    ELSE Rejected(status)

(***************************************************************************)
(* authSlice                                                                *)
(***************************************************************************)
NoProfile == [null |-> TRUE, id |-> 0, name |-> <<>>]
Profile(id, name) == [null |-> FALSE, id |-> id, name |-> name]

ServerName == << "s", "r", "v" >>
RawProfile(id, user_id) == [id |-> id, user_id |-> user_id, name |-> ServerName]
\* the shapes of /myProfile answers
RawProfiles == { RawProfile(JNum(7), Missing), RawProfile(Missing, JNum(7)),
                 RawProfile(Missing, Missing) }

\* p?.id ?? p?.user_id ?? 0
NormalizeUser(raw) ==
    LET id == IF raw.id.k \notin { "missing", "null" } THEN raw.id.v
              ELSE IF raw.user_id.k \notin { "missing", "null" } THEN raw.user_id.v
              ELSE 0
    IN  Profile(id, raw.name)

\* { id: 0, name: username, ava: "" }
LocalMe(username) == Profile(0, username)

NoError == ""
ERR_LOGIN == "Login error"              \* the fallback message of login.rejected
ERR_NOT_AUTHED == "not authed"
ERR_STORAGE == "storage error"          \* the message of the error setItem throws

initialStateBasic ==
    [me |-> NoProfile, isAuthed |-> FALSE, mode |-> "basic", status |-> "idle", error |-> NoError]
initialState ==
    [me |-> NoProfile, isAuthed |-> FALSE, mode |-> AUTH_MODE, status |-> "idle", error |-> NoError]

\* reducers.setMe: state.me = action.payload; state.isAuthed = !!action.payload
setMeFlagOnly(s, payload) == [s EXCEPT !.isAuthed = ~payload.null]
setMe(s, payload) == [s EXCEPT !.me = payload, !.isAuthed = ~payload.null]

\* extraReducers
InitPending(s) == [s EXCEPT !.status = "loading", !.error = NoError]
InitFulfilled(s, me) == [s EXCEPT !.status = "succeeded", !.me = me, !.isAuthed = TRUE]
InitRejectedFailed(s) == [s EXCEPT !.status = "failed", !.me = NoProfile, !.isAuthed = FALSE]
InitRejected(s) == [s EXCEPT !.status = "idle", !.me = NoProfile, !.isAuthed = FALSE]
LoginPending(s) == [s EXCEPT !.status = "loading", !.error = NoError]
LoginFulfilled(s, me) == [s EXCEPT !.status = "succeeded", !.me = me, !.isAuthed = TRUE]
LoginRejectedRaw(s, payload) ==
    [s EXCEPT !.status = "failed", !.error = payload, !.me = NoProfile, !.isAuthed = FALSE]
LoginRejected(s, payload) ==
    [s EXCEPT !.status = "failed", !.error = IF payload # "" THEN payload ELSE ERR_LOGIN,
              !.me = NoProfile, !.isAuthed = FALSE]
LogoutFulfilled(s) == [s EXCEPT !.me = NoProfile, !.isAuthed = FALSE, !.status = "idle"]

(***************************************************************************)
(* Inputs of the model                                                      *)
(***************************************************************************)
U_ab == << "a", "b" >>
U_bob == << "b", "o", "b" >>
PW_x == << "x" >>
PW_y == << "y" >>
U_pad == << "a", "b", " " >>

Modes == { "local", "basic", "hybrid" }
Base_root == << "/" >>
Base_app == << "/", "a", "p", "p", "/" >>
Q_tab == << "?", "t", "=", "1" >>

\* pages that render AuthGate (and with it LoginForm) for a visitor who is not authed
AuthGatePaths == { P_profile, P_new }
\* routes behind the protected-route guard
GuardedPaths == { P_edit }

OnProfile(loc) == loc.pathname = BASE_URL \o P_profile
\* sp.get("expired") === "1"
HasExpiredFlag(loc) == loc.search = Q_expired

\* whether the ProfilePage effect is scheduled after a step: the page is mounted with
\* an authed visitor, and it was just mounted, isAuthed just became true, `from`
\* changed, or the run was already scheduled
EffectAfter(wasAuthed, isAuthed, oldLoc, newLoc, pending) ==
    /\ OnProfile(newLoc)
    /\ isAuthed
    /\ (~wasAuthed \/ ~OnProfile(oldLoc) \/ pending \/ oldLoc.from # newLoc.from)

NoDelivery == [req |-> NoReq, status |-> -1, settled |-> "none"]
NoRead == [op |-> "none", at |-> 0, pre |-> [k \in StorageKeys |-> Absent],
           val |-> NoRecord, post |-> [k \in StorageKeys |-> Absent], thrown |-> FALSE]

NoReturn == [saved |-> NoPath, n |-> 0, val |-> NoPath, effect |-> FALSE]

NoHist == [login |-> "none", u |-> <<>>, p |-> <<>>, target |-> NoPath,
           failures |-> 0, redirects |-> 0, off |-> FALSE,
           netFailures |-> 0, netRedirects |-> 0, netOff |-> FALSE]

\* profileSlice: initial, with no updateUser call under way
initial == [data |-> "null", call |-> "none", thrown |-> FALSE]
NoArticle == [content |-> <<>>, call |-> "none", exist |-> <<>>, blocks |-> <<>>,
              position |-> [given |-> FALSE, n |-> 0], sent |-> <<>>]
NoImg == <<>>

InflightCount == BagCardinality(inflight)
Idle == delivered = NoDelivery /\ pc = "run"
\* nothing of a settled call is left to run: the continuation of handleLogin is a
\* microtask, it runs before the next event (a response, a click) is handled
Quiet == Idle /\ form.ok = 0 /\ form.fail = 0

Store(primary, second, local) ==
    [k \in StorageKeys |->
        IF k = AUTH_BASIC_KEY_PRIMARY THEN primary
        ELSE IF k = AUTH_BASIC_KEY_SECOND THEN second ELSE local]

\* the state once the modules are loaded (api created, store created), in a browser
\* tab whose storages hold what earlier page loads left there
InitCore(faultSets, modes, bases, stores, starts, backs) ==
    /\ faults \in faultSets
    /\ ENV_AUTH_MODE \in modes
    /\ ENV_BASE \in bases
    /\ now = DAY_MS
    /\ localStorage \in stores
    /\ sessionStorage \in backs
    /\ defaultAuth = NoHeader
    /\ \E h \in starts : location = Loc(BASE_URL \o ParseHref(h).pathname, ParseHref(h).search, NoPath)
    /\ auth = initialState
    /\ inflight = EmptyBag
    /\ pc = "boot"
    /\ form = [loading |-> FALSE, ok |-> 0, fail |-> 0]
    /\ effectPending = FALSE
    /\ delivered = NoDelivery
    /\ hist = NoHist
    /\ readResult = NoRead
    /\ returned = NoReturn

\* with no profile update, no content edit and no image on the page
InitUnder(faultSets, modes, bases, stores, starts, backs) ==
    /\ InitCore(faultSets, modes, bases, stores, starts, backs)
    /\ profile = initial
    /\ article = NoArticle
    /\ img = NoImg

\* the same, in a browser whose localStorage works
InitWith(modes, bases, stores, starts, backs) ==
    InitUnder({ {} }, modes, bases, stores, starts, backs)

\* hist after a step that moved the location for another reason than the 401/403
\* branch (the burst of failures ends), or left it alone
BurstAfter(moved) ==
    IF moved THEN [hist EXCEPT !.failures = 0, !.redirects = 0, !.off = FALSE,
                               !.netFailures = 0, !.netRedirects = 0, !.netOff = FALSE]
    ELSE hist

\* the in-memory target a login finds next to a persisted return path (<<>> when the
\* two are not both there)
TargetAt(loc, ss) ==
    IF OnProfile(loc) /\ loc.from # NoPath /\ ss # NoPath THEN loc.from ELSE NoPath

\* hist after a failure with no response: one more failure of the burst of such
\* failures, and one more navigation if the location moved
NetBurstAfter(h, loc, moved) ==
    [h EXCEPT !.netFailures = IF hist.netFailures < 2 THEN hist.netFailures + 1 ELSE 2,
              !.netRedirects = IF moved THEN hist.netRedirects + 1 ELSE hist.netRedirects,
              !.netOff = IF hist.netFailures = 0
                         THEN ~AtNetwork(loc.pathname)
                         ELSE hist.netOff]

\* the path below the application base, and its first segment
RelPath(path) ==
    IF BASE_URL # <<>> /\ StartsWith(path, BASE_URL)
    THEN SubSeq(path, Len(BASE_URL) + 1, Len(path)) ELSE path
FirstSegment(rel) ==
    LET body == IF rel # <<>> THEN Tail(rel) ELSE <<>>
        i == IndexOf(body, Slash)
    IN  IF i = 0 THEN body ELSE SubSeq(body, 1, i - 1)
\* a path of the error, network, profile (login surface) or register family
ExemptPath(path) ==
    FirstSegment(RelPath(path)) \in { Tail(P_error), Tail(P_network), Tail(P_profile), Tail(P_register) }

\* bootstrapAuthFromStorage() throws: its readBasicAuth does, nothing catches it
BootThrows == AUTH_MODE # "local" /\ ReadBasicAuth(localStorage, now).thrown

\* main.tsx: bootstrapAuthFromStorage(); store.dispatch(initAuth())
Startup ==
    /\ pc = "boot"
    /\ IF BootThrows
       THEN \* the module throws at its top level: nothing is dispatched or rendered
            /\ pc' = "crashed"
            /\ UNCHANGED << localStorage, defaultAuth, auth, inflight, effectPending >>
       ELSE
       /\ pc' = "run"
       /\ LET w == BootstrapAuthFromStorage(World(localStorage, sessionStorage, defaultAuth, location))
              pending == InitPending(auth)
          IN  /\ defaultAuth' = w.def
              /\ IF AUTH_MODE = "local"
                 THEN LET s == ReadLocalAuth(w.ls, now)
                      IN  /\ localStorage' = s.ls
                          /\ auth' = IF s.val = NoRecord THEN InitRejected(pending)
                                     ELSE InitFulfilled(pending, LocalMe(FieldText(s.val.username)))
                          /\ inflight' = inflight
                 ELSE LET i == RequestInterceptor(w.ls, MergedAuth(NoHeader, w.def))
                          r == Req("init", i.auth, One, <<>>, <<>>)
                      IN  /\ localStorage' = i.ls
                          /\ auth' = pending
                          /\ inflight' = inflight (+) SetToBag({ r })
       /\ effectPending' = EffectAfter(FALSE, auth'.isAuthed, Loc(<<>>, <<>>, NoPath), location, FALSE)
    /\ UNCHANGED << ENV_AUTH_MODE, ENV_BASE, faults, profile, article, img, returned, readResult, now, sessionStorage, location, form,
                    delivered, hist >>

\* any call of the application through the shared client (api.get, api.post, ...),
\* with or without the opt-out header
SendApi(skip) ==
    /\ Quiet
    /\ InflightCount < MaxInflight
    /\ LET i == RequestInterceptor(localStorage, MergedAuth(NoHeader, defaultAuth))
           r == Req("api", i.auth, skip, <<>>, <<>>)
       IN  /\ localStorage' = i.ls
           /\ inflight' = inflight (+) SetToBag({ r })
    /\ UNCHANGED << ENV_AUTH_MODE, ENV_BASE, faults, profile, article, img, returned, readResult, now, sessionStorage, defaultAuth,
                    location, auth, pc, form, effectPending, delivered, hist >>

\* loginLocal: username.trim().length < 3
TooShortNever(u) == FALSE
TooShort(u) == Len(Trim(u)) < 3

\* dispatch(login({ username, password })) from the login surface, up to the await:
\* the facade hands over to loginLocal, loginHybrid or loginBasic by AUTH_MODE
login(u, p) ==
    /\ Quiet
    /\ ~auth.isAuthed
    /\ \E g \in AuthGatePaths : location.pathname = BASE_URL \o g
    /\ IF AUTH_MODE = "local"
       THEN \* loginLocal: no request
            IF TooShort(u)
            THEN /\ auth' = LoginRejected(LoginPending(auth), "")
                 /\ form' = [form EXCEPT !.loading = TRUE, !.fail = @ + 1]
                 /\ UNCHANGED << localStorage, inflight, hist >>
            ELSE IF Throws("setItem")
            THEN \* rememberLocalAuth throws, the thunk rejects with the error's message
                 /\ auth' = LoginRejected(LoginPending(auth), ERR_STORAGE)
                 /\ form' = [form EXCEPT !.loading = TRUE, !.fail = @ + 1]
                 /\ UNCHANGED << localStorage, inflight, hist >>
            ELSE /\ localStorage' =
                        RememberLocalAuth(World(localStorage, sessionStorage, defaultAuth, location), u, 7).ls
                 /\ auth' = LoginFulfilled(LoginPending(auth), LocalMe(u))
                 /\ form' = [form EXCEPT !.loading = TRUE, !.ok = @ + 1]
                 /\ hist' = [hist EXCEPT !.login = "local", !.u = u, !.p = p,
                                         !.target = TargetAt(location, sessionStorage)]
                 /\ inflight' = inflight
       ELSE \* fetchMyProfileWithBasic(username, password)
            /\ InflightCount < MaxInflight
            /\ LET i == RequestInterceptor(localStorage, MergedAuth(BasicHeader(u, p), defaultAuth))
                   r == Req("login", i.auth, <<>>, u, p)
               IN  /\ localStorage' = i.ls
                   /\ inflight' = inflight (+) SetToBag({ r })
            /\ auth' = LoginPending(auth)
            /\ form' = [form EXCEPT !.loading = TRUE]
            /\ hist' = hist
    /\ effectPending' = EffectAfter(auth.isAuthed, auth'.isAuthed, location, location, effectPending)
    /\ UNCHANGED << ENV_AUTH_MODE, ENV_BASE, faults, profile, article, img, returned, readResult, now, sessionStorage, defaultAuth,
                    location, pc, delivered >>

\* LoginForm.handleLogin up to the await: validation, setLoading(true), dispatch(login)
LoginSubmit(u, p) ==
    /\ IF auth.mode = "local" THEN Trim(u) # <<>> ELSE Trim(u) # <<>> /\ Trim(p) # <<>>
    /\ login(u, p)

\* LoginForm: the disabled attribute of the button, with the fields holding u and p
Disabled(u, p) ==
    IF auth.mode = "local" THEN Trim(u) = <<>> \/ form.loading
    ELSE ~(Trim(u) # <<>> /\ Trim(p) # <<>>) \/ form.loading

\* the button is clicked: onClick={handleLogin}, dead while disabled
ClickLogin(u, p) == ~Disabled(u, p) /\ LoginSubmit(u, p)

\* Enter is pressed in one of the two inputs: e.key === "Enter" && handleLogin()
EnterLogin(u, p) == LoginSubmit(u, p)

\* a 401/403 that takes the invalidating branch of the response interceptor
Invalidating(r, status) == status \in { 401, 403 } /\ AUTH_MODE # "local" /\ r.skip # One

\* a response arrives: the response interceptor runs and the promise of the call
\* settles (fulfilled for 200, rejected with the original error otherwise)
Respond(r, status) ==
    /\ Quiet
    /\ BagIn(r, inflight)
    /\ inflight' = inflight (-) SetToBag({ r })
    /\ LET w == World(localStorage, sessionStorage, defaultAuth, location)
           v == IF status = 200 THEN w ELSE ResponseError(w, status, r.skip)
       IN  /\ localStorage' = v.ls
           /\ sessionStorage' = v.ss
           /\ defaultAuth' = v.def
           /\ location' = v.loc
           /\ hist' = IF Invalidating(r, status)
                      THEN [BurstAfter(v.loc # location) EXCEPT
                            !.login = "none", !.u = <<>>, !.p = <<>>,
                            !.target = IF v.loc # location THEN NoPath ELSE hist.target,
                            !.failures = IF hist.failures < MaxBurst THEN hist.failures + 1
                                         ELSE MaxBurst,
                            !.redirects = IF v.loc # location THEN hist.redirects + 1
                                          ELSE hist.redirects,
                            !.off = IF hist.failures = 0 THEN ~ExemptPath(location.pathname)
                                    ELSE hist.off]
                      ELSE IF status = NetworkError
                      THEN NetBurstAfter([BurstAfter(v.loc # location) EXCEPT
                                             !.target = IF v.loc # location THEN NoPath ELSE @],
                                         location, v.loc # location)
                      ELSE [BurstAfter(v.loc # location) EXCEPT
                                !.target = IF v.loc # location THEN NoPath ELSE @]
    /\ LET o == ResponseSettles(status, r.skip)
       IN  delivered' = [req |-> r, status |-> o.status, settled |-> o.settled]
    /\ effectPending' = EffectAfter(auth.isAuthed, auth.isAuthed, location, location', effectPending)
    /\ UNCHANGED << ENV_AUTH_MODE, ENV_BASE, faults, profile, article, img, returned, readResult, now, auth, pc, form >>

\* the caller's continuation of a settled api call: nothing this subsystem holds changes
ContinueApi ==
    /\ delivered.req.kind = "api"
    /\ delivered' = NoDelivery
    /\ UNCHANGED << ENV_AUTH_MODE, ENV_BASE, faults, profile, article, img, returned, readResult, now, localStorage, sessionStorage,
                    defaultAuth, location, auth, inflight, pc, form, effectPending, hist >>

\* initAuth after its await (basic and hybrid)
ContinueInit ==
    /\ delivered.req.kind = "init"
    /\ delivered' = NoDelivery
    /\ IF delivered.status = 200
       THEN /\ \E raw \in RawProfiles : auth' = InitFulfilled(auth, NormalizeUser(raw))
            /\ localStorage' = localStorage
       ELSE IF AUTH_MODE = "hybrid"
       THEN LET s == ReadLocalAuth(localStorage, now)
            IN  /\ localStorage' = s.ls
                /\ auth' = IF s.val # NoRecord
                           THEN InitFulfilled(auth, LocalMe(FieldText(s.val.username)))
                           ELSE InitRejected(auth)
       ELSE /\ auth' = InitRejected(auth)
            /\ localStorage' = localStorage
    /\ effectPending' = EffectAfter(auth.isAuthed, auth'.isAuthed, location, location, effectPending)
    /\ UNCHANGED << ENV_AUTH_MODE, ENV_BASE, faults, profile, article, img, returned, readResult, now, sessionStorage, defaultAuth,
                    location, inflight, pc, form, hist >>

\* loginHybrid's catch: username.trim().length >= 3 (loginBasic has no fallback)
FallsBackUntrimmed(u) == AUTH_MODE = "hybrid" /\ Len(u) >= 3
FallsBackAnyMode(u) == Len(Trim(u)) >= 3
FallsBack(u) == AUTH_MODE = "hybrid" /\ Len(Trim(u)) >= 3

\* loginBasic / loginHybrid after the await, then login's own reducers
ContinueLogin ==
    /\ delivered.req.kind = "login"
    /\ delivered' = NoDelivery
    /\ LET u == delivered.req.u
           p == delivered.req.p
           w == World(localStorage, sessionStorage, defaultAuth, location)
       IN  IF delivered.status = 200 /\ Throws("setItem")
           THEN \* rememberBasicAuth throws inside the try: loginBasic's catch rejects;
                \* loginHybrid's catch falls back and rememberLocalAuth throws in turn
                /\ auth' = LoginRejected(auth, IF FallsBack(u) THEN ERR_STORAGE ELSE "")
                /\ form' = [form EXCEPT !.fail = @ + 1]
                /\ UNCHANGED << localStorage, defaultAuth, hist >>
           ELSE IF delivered.status = 200
           THEN \E raw \in RawProfiles :
                  LET v == IF AUTH_MODE = "hybrid" THEN RememberHybridAuth(w, u, p, 7)
                           ELSE RememberBasicAuth(w, u, p, 7)
                  IN  /\ localStorage' = v.ls
                      /\ defaultAuth' = v.def
                      /\ auth' = LoginFulfilled(auth, NormalizeUser(raw))
                      /\ form' = [form EXCEPT !.ok = @ + 1]
                      /\ hist' = [hist EXCEPT !.login = "remote", !.u = u, !.p = p,
                                              !.target = TargetAt(location, sessionStorage)]
           ELSE IF FallsBack(u) /\ Throws("setItem")
           THEN /\ auth' = LoginRejected(auth, ERR_STORAGE)
                /\ form' = [form EXCEPT !.fail = @ + 1]
                /\ UNCHANGED << localStorage, defaultAuth, hist >>
           ELSE IF FallsBack(u)
           THEN /\ localStorage' = RememberLocalAuth(w, u, 7).ls
                /\ defaultAuth' = defaultAuth
                /\ auth' = LoginFulfilled(auth, LocalMe(u))
                /\ form' = [form EXCEPT !.ok = @ + 1]
                /\ hist' = [hist EXCEPT !.login = "local", !.u = u, !.p = p,
                                        !.target = TargetAt(location, sessionStorage)]
           ELSE /\ auth' = LoginRejected(auth, "")
                /\ form' = [form EXCEPT !.fail = @ + 1]
                /\ UNCHANGED << localStorage, defaultAuth, hist >>
    /\ effectPending' = EffectAfter(auth.isAuthed, auth'.isAuthed, location, location, effectPending)
    /\ UNCHANGED << ENV_AUTH_MODE, ENV_BASE, faults, profile, article, img, returned, readResult, now, sessionStorage, location,
                    inflight, pc >>

\* LoginForm.handleLogin after the await, login fulfilled
FormContinueOk ==
    /\ Idle
    /\ form.ok > 0
    /\ LET c == ConsumeReturnTo(sessionStorage)
           target == IF c.val # NoPath THEN c.val ELSE P_home
       IN  /\ sessionStorage' = c.ss
           /\ location' = RouterNav(target)
    /\ form' = [form EXCEPT !.ok = @ - 1, !.loading = FALSE]
    /\ effectPending' = EffectAfter(auth.isAuthed, auth.isAuthed, location, location', effectPending)
    /\ hist' = BurstAfter(TRUE)
    /\ UNCHANGED << ENV_AUTH_MODE, ENV_BASE, faults, profile, article, img, returned, readResult, now, localStorage, defaultAuth, auth,
                    inflight, pc, delivered >>

\* LoginForm.handleLogin after the await, login rejected: toast, setLoading(false)
FormContinueFail ==
    /\ Idle
    /\ form.fail > 0
    /\ form' = [form EXCEPT !.fail = @ - 1, !.loading = FALSE]
    /\ UNCHANGED << ENV_AUTH_MODE, ENV_BASE, faults, profile, article, img, returned, readResult, now, localStorage, sessionStorage,
                    defaultAuth, location, auth, inflight, pc, effectPending, delivered, hist >>

\* ProfilePage: the effect on [isAuthed, mode, d, nav, from]
ProfileEffect ==
    /\ Idle
    /\ effectPending
    /\ auth.isAuthed
    /\ IF auth.mode # "local"
       THEN \* d(loadProfile()); d(loadMyArticles())
            /\ InflightCount + 2 <= MaxInflight
            /\ LET i == RequestInterceptor(localStorage, MergedAuth(NoHeader, defaultAuth))
                   r == Req("api", i.auth, <<>>, <<>>, <<>>)
               IN  /\ localStorage' = i.ls
                   /\ inflight' = inflight (+) SetToBag({ r }) (+) SetToBag({ r })
       ELSE UNCHANGED << localStorage, inflight >>
    /\ IF location.from # NoPath
       THEN /\ location' = RouterNav(location.from)
            /\ sessionStorage' = sessionStorage
       ELSE IF sessionStorage # NoPath
       THEN /\ sessionStorage' = NoPath
            /\ location' = RouterNav(sessionStorage)
       ELSE UNCHANGED << location, sessionStorage >>
    /\ effectPending' = EffectAfter(auth.isAuthed, auth.isAuthed, location, location', FALSE)
    /\ hist' = BurstAfter(location' # location)
    /\ returned' = IF returned.saved # NoPath /\ sessionStorage' # sessionStorage
                   THEN [returned EXCEPT !.effect = TRUE] ELSE returned
    /\ UNCHANGED << ENV_AUTH_MODE, ENV_BASE, faults, profile, article, img, readResult, now, defaultAuth, auth, pc, form,
                    delivered >>

\* ProfilePage: the effect that shows the toast and deletes expired=1 from the URL
ExpiredEffect ==
    /\ Idle
    /\ OnProfile(location)
    /\ HasExpiredFlag(location)
    /\ location' = Loc(location.pathname, <<>>, NoPath)
    /\ UNCHANGED << ENV_AUTH_MODE, ENV_BASE, faults, profile, article, img, returned, readResult, now, localStorage, sessionStorage,
                    defaultAuth, auth, inflight, pc, form, effectPending, delivered, hist >>

\* ProfilePage.handleLogout: logout thunk (dropAuth), its reducer, nav("/")
Logout ==
    /\ Quiet
    /\ auth.isAuthed
    /\ OnProfile(location)
    /\ LET v == DropAuth(World(localStorage, sessionStorage, defaultAuth, location))
       IN  /\ localStorage' = v.ls
           /\ defaultAuth' = v.def
    /\ auth' = LogoutFulfilled(auth)
    /\ location' = RouterNav(P_home)
    /\ effectPending' = FALSE
    /\ hist' = NoHist
    /\ UNCHANGED << ENV_AUTH_MODE, ENV_BASE, faults, profile, article, img, returned, readResult, now, sessionStorage, inflight, pc,
                    form, delivered >>

\* the visitor follows a link of the application to the route h
UserNavigate(h) ==
    /\ Quiet
    /\ LET t == Loc(BASE_URL \o ParseHref(h).pathname, ParseHref(h).search, NoPath)
       IN  /\ t # location
           /\ location' = t
    /\ effectPending' = EffectAfter(auth.isAuthed, auth.isAuthed, location, location', effectPending)
    /\ hist' = [BurstAfter(TRUE) EXCEPT !.target = NoPath]
    /\ UNCHANGED << ENV_AUTH_MODE, ENV_BASE, faults, profile, article, img, returned, readResult, now, localStorage, sessionStorage,
                    defaultAuth, auth, inflight, pc, form, delivered >>

\* the protected-route guard: an unauthenticated visitor of a guarded route is sent
\* to the login surface with the route kept in the navigation state
GuardRedirect ==
    /\ Quiet
    /\ ~auth.isAuthed
    /\ \E g \in GuardedPaths : location.pathname = BASE_URL \o g
    /\ location' = Loc(BASE_URL \o P_profile, <<>>, location.pathname)
    /\ effectPending' = FALSE
    /\ hist' = [BurstAfter(TRUE) EXCEPT !.target = NoPath]
    /\ UNCHANGED << ENV_AUTH_MODE, ENV_BASE, faults, profile, article, img, returned, readResult, now, localStorage, sessionStorage,
                    defaultAuth, auth, inflight, pc, form, delivered >>

\* a day passes
Tick ==
    /\ delivered = NoDelivery
    /\ now + DAY_MS <= MaxDays * DAY_MS
    /\ now' = now + DAY_MS
    /\ UNCHANGED << ENV_AUTH_MODE, ENV_BASE, faults, profile, article, img, returned, readResult, localStorage, sessionStorage,
                    defaultAuth, location, auth, inflight, pc, form, effectPending,
                    delivered, hist >>

\* readBasicAuth() called on its own
ReadBasic ==
    /\ LET r == ReadBasicAuth(localStorage, now)
       IN  /\ readResult' = [op |-> "basic", at |-> now, pre |-> localStorage,
                          val |-> r.val, post |-> r.ls, thrown |-> r.thrown]
           /\ localStorage' = r.ls
    /\ UNCHANGED << ENV_AUTH_MODE, ENV_BASE, faults, profile, article, img, returned, now, sessionStorage, defaultAuth, location, auth,
                    inflight, pc, form, effectPending, delivered, hist >>

\* readLocalAuth() called on its own
ReadLocal ==
    /\ LET r == ReadLocalAuth(localStorage, now)
       IN  /\ readResult' = [op |-> "local", at |-> now, pre |-> localStorage,
                          val |-> r.val, post |-> r.ls, thrown |-> r.thrown]
           /\ localStorage' = r.ls
    /\ UNCHANGED << ENV_AUTH_MODE, ENV_BASE, faults, profile, article, img, returned, now, sessionStorage, defaultAuth, location, auth,
                    inflight, pc, form, effectPending, delivered, hist >>

\* dispatch(setMe(payload)), the exported synchronous action of the slice
SetMe(payload) ==
    /\ Quiet
    /\ auth' = setMe(auth, payload)
    /\ auth' # auth
    /\ effectPending' = EffectAfter(auth.isAuthed, auth'.isAuthed, location, location, effectPending)
    /\ UNCHANGED << ENV_AUTH_MODE, ENV_BASE, faults, profile, article, img, returned, readResult, now, localStorage,
                    sessionStorage, defaultAuth, location, inflight, pc, form, delivered, hist >>

\* saveReturnTo(path) called on its own (path <<>>: called without an argument)
SaveReturn(path) ==
    /\ Idle
    /\ sessionStorage' =
            SaveReturnTo(World(localStorage, sessionStorage, defaultAuth, location), path).ss
    /\ returned' = [saved |-> sessionStorage', n |-> 0, val |-> NoPath, effect |-> FALSE]
    /\ UNCHANGED << ENV_AUTH_MODE, ENV_BASE, faults, profile, article, img, readResult, now, localStorage, defaultAuth,
                    location, auth, inflight, pc, form, effectPending, delivered, hist >>

\* consumeReturnTo() called on its own
ConsumeReturn ==
    /\ Idle
    /\ LET c == ConsumeReturnTo(sessionStorage)
       IN  /\ sessionStorage' = c.ss
           /\ returned' = [returned EXCEPT !.n = IF @ < 2 THEN @ + 1 ELSE 2, !.val = c.val]
    /\ UNCHANGED << ENV_AUTH_MODE, ENV_BASE, faults, profile, article, img, readResult, now, localStorage, defaultAuth,
                    location, auth, inflight, pc, form, effectPending, delivered, hist >>

(***************************************************************************)
(* Specifications                                                           *)
(***************************************************************************)
\* what earlier page loads can have left under the credential keys
RawExps == { Missing, JNull, JStr(<< "x" >>), JNum(DAY_MS), JNum(2 * DAY_MS) }
RawNames == { Missing, JStr(<<>>), JStr(U_ab) }
RawSecrets == { Missing, JStr(<<>>), JStr(PW_x) }
RawPrimaryEntries ==
    { Absent, EmptyRaw, Garbage, JsonNull }
        \cup { Obj(u, p, e) : u \in RawNames, p \in RawSecrets, e \in RawExps }
RawSecondEntries ==
    { Absent, Garbage } \cup { Obj(JStr(U_bob), JStr(PW_y), e) : e \in RawExps }
RawLocalEntries ==
    { Absent, EmptyRaw, Garbage, Obj(JStr(<<>>), Missing, JNum(2 * DAY_MS)) }
        \cup { Obj(JStr(U_ab), Missing, e) : e \in RawExps }
RawStores ==
    { Store(a, b, c) : a \in RawPrimaryEntries, b \in RawSecondEntries, c \in RawLocalEntries }

\* records written by an earlier session, valid for the whole run
Later == (MaxDays + 7) * DAY_MS
NoStore == Store(Absent, Absent, Absent)
FullStore == Store(BasicJson(U_bob, PW_y, Later), BasicJson(U_bob, PW_y, Later),
                   LocalJson(U_bob, Later))
BobStore == Store(BasicJson(U_bob, PW_y, Later), Absent, Absent)

Outcomes == { 200, NetworkError, 400, 401, 403, 404, 500 }
SessionOutcomes == { 200, 401 }
SkipValues == { <<>>, One }
Identities == { U_ab, U_bob }
Secrets == { PW_x }

\* the credential reads on their own, over every kind of stored entry
InitStore == InitWith({ "basic" }, { Base_root }, RawStores, { P_home }, { NoPath })
NextStore == ReadBasic \/ ReadLocal \/ Tick
SpecStore == InitStore /\ [][NextStore]_vars

\* the classifier of failed responses, in every mode and under both bases
InitClassify ==
    InitWith(Modes, { Base_root, Base_app }, { NoStore, FullStore },
             { P_edit \o Q_tab, P_register }, { NoPath })
NextClassify ==
    \/ Startup
    \/ \E skip \in SkipValues : SendApi(skip)
    \/ \E r \in BagToSet(inflight), status \in Outcomes : Respond(r, status)
    \/ ContinueApi
    \/ ContinueInit
    \/ ProfileEffect
    \/ ExpiredEffect
    \/ UserNavigate(P_edit \o Q_tab)
SpecClassify == InitClassify /\ [][NextClassify]_vars

\* the session: startup, login, logout and calls through the shared client
Init == InitWith(Modes, { Base_root }, { NoStore, BobStore }, { P_profile }, { NoPath })
Next ==
    \/ Startup
    \/ SendApi(<<>>)
    \/ \E u \in Identities, p \in Secrets : LoginSubmit(u, p)
    \/ \E r \in BagToSet(inflight), status \in SessionOutcomes : Respond(r, status)
    \/ ContinueApi
    \/ ContinueInit
    \/ ContinueLogin
    \/ FormContinueOk
    \/ FormContinueFail
    \/ ProfileEffect
    \/ ExpiredEffect
    \/ Logout
    \/ UserNavigate(P_profile)
Spec == Init /\ [][Next]_vars

\* startup and the requests after it, while the stored records age
StaleStore == Store(BasicJson(U_bob, PW_y, DAY_MS - 1), BasicJson(U_bob, PW_y, DAY_MS - 1),
                    LocalJson(U_bob, DAY_MS - 1))
SoonStore == Store(BasicJson(U_bob, PW_y, DAY_MS), Absent, LocalJson(U_bob, Later))
InitBoot ==
    InitWith(Modes, { Base_root }, { NoStore, FullStore, StaleStore, SoonStore },
             { P_edit, P_profile }, { NoPath })
NextBoot ==
    \/ Startup
    \/ SendApi(<<>>)
    \/ \E r \in BagToSet(inflight), status \in Outcomes : Respond(r, status)
    \/ ContinueApi
    \/ ContinueInit
    \/ ProfileEffect
    \/ ExpiredEffect
    \/ Tick
SpecBoot == InitBoot /\ [][NextBoot]_vars

\* login through the form, in every mode, with every kind of answer
LoginOutcomes == { 200, NetworkError, 401, 500 }
LoginIdentities == { U_ab, U_bob, U_pad }
LoginSecrets == { <<>>, PW_x }
InitLogin ==
    InitWith(Modes, { Base_root }, { NoStore, BobStore }, { P_profile, P_new }, { NoPath })
NextLogin ==
    \/ Startup
    \/ \E u \in LoginIdentities, p \in LoginSecrets : LoginSubmit(u, p)
    \/ \E r \in BagToSet(inflight), status \in LoginOutcomes : Respond(r, status)
    \/ ContinueApi
    \/ ContinueInit
    \/ ContinueLogin
    \/ FormContinueOk
    \/ FormContinueFail
    \/ ProfileEffect
    \/ ExpiredEffect
SpecLogin == InitLogin /\ [][NextLogin]_vars

\* the post-login resolvers, with and without a persisted return path
InitResolve ==
    InitWith({ "local", "hybrid" }, { Base_root }, { NoStore }, { P_edit, P_profile },
             { NoPath, P_new })
NextResolve ==
    \/ Startup
    \/ GuardRedirect
    \/ \E u \in Identities, p \in Secrets : LoginSubmit(u, p)
    \/ \E r \in BagToSet(inflight), status \in SessionOutcomes : Respond(r, status)
    \/ ContinueApi
    \/ ContinueInit
    \/ ContinueLogin
    \/ FormContinueOk
    \/ FormContinueFail
    \/ ProfileEffect
    \/ ExpiredEffect
    \/ \E h \in { P_edit, P_profile } : UserNavigate(h)
SpecResolve == InitResolve /\ [][NextResolve]_vars

\* the classifier of answers that are neither a success nor a 401/403, over every
\* status it recognizes and some it does not
StatusOutcomes == { 200, 400, 404, 409, 418, 422, 429, 500, 501, 502, 503, 504 }
InitStatus ==
    InitWith(Modes, { Base_root, Base_app }, { NoStore }, { P_edit \o Q_tab }, { NoPath })
NextStatus ==
    \/ Startup
    \/ SendApi(<<>>)
    \/ \E r \in BagToSet(inflight), status \in StatusOutcomes : Respond(r, status)
    \/ ContinueApi
    \/ ContinueInit
    \/ UserNavigate(P_edit \o Q_tab)
SpecStatus == InitStatus /\ [][NextStatus]_vars

\* the slice under every action it has: init, login, logout and setMe
SetMePayloads == { NoProfile, Profile(7, ServerName) }
InitSlice == InitWith(Modes, { Base_root }, { NoStore, BobStore }, { P_profile }, { NoPath })
NextSlice ==
    \/ Startup
    \/ LoginSubmit(U_bob, PW_x)
    \/ \E r \in BagToSet(inflight), status \in SessionOutcomes : Respond(r, status)
    \/ ContinueInit
    \/ ContinueLogin
    \/ FormContinueOk
    \/ FormContinueFail
    \/ ProfileEffect
    \/ ContinueApi
    \/ ExpiredEffect
    \/ Logout
    \/ \E me \in SetMePayloads : SetMe(me)
    \/ UserNavigate(P_profile)
SpecSlice == InitSlice /\ [][NextSlice]_vars

\* the login form under its two input paths, the button and the Enter key
InitForm == InitWith(Modes, { Base_root }, { NoStore }, { P_profile }, { NoPath })
NextForm ==
    \/ Startup
    \/ \E u \in Identities, p \in Secrets : ClickLogin(u, p)
    \/ \E u \in Identities, p \in Secrets : EnterLogin(u, p)
    \/ \E r \in BagToSet(inflight), status \in SessionOutcomes : Respond(r, status)
    \/ ContinueInit
    \/ ContinueLogin
    \/ FormContinueOk
    \/ FormContinueFail
    \/ ProfileEffect
    \/ ContinueApi
    \/ UserNavigate(P_profile)
SpecForm == InitForm /\ [][NextForm]_vars

\* the session in a browser whose localStorage works, refuses writes (quota), or
\* refuses every access (storage disabled)
FaultSets == { {}, { "setItem" }, { "getItem", "setItem", "removeItem" } }
InitFault ==
    InitUnder(FaultSets, Modes, { Base_root }, { NoStore, BobStore }, { P_profile }, { NoPath })
NextFault ==
    \/ Startup
    \/ ReadBasic
    \/ ReadLocal
    \/ LoginSubmit(U_bob, PW_x)
    \/ \E r \in BagToSet(inflight), status \in SessionOutcomes : Respond(r, status)
    \/ ContinueInit
    \/ ContinueLogin
    \/ FormContinueOk
    \/ FormContinueFail
    \/ ProfileEffect
    \/ ContinueApi
    \/ Logout
    \/ UserNavigate(P_profile)
SpecFault == InitFault /\ [][NextFault]_vars

\* the return path: saved, consumed by the form's resolver call, taken by the profile
\* page's effect
ReturnPaths == { NoPath, P_edit \o Q_tab, P_new }
InitReturn ==
    InitWith({ "local" }, { Base_root, Base_app }, { NoStore, FullStore },
             { P_profile, P_new }, { NoPath })
NextReturn ==
    \/ Startup
    \/ \E path \in ReturnPaths : SaveReturn(path)
    \/ ConsumeReturn
    \/ ProfileEffect
    \/ \E h \in { P_profile, P_new } : UserNavigate(h)
SpecReturn == InitReturn /\ [][NextReturn]_vars

(***************************************************************************)
(* Properties                                                               *)
(***************************************************************************)
\* this step hands a response to the classifier
Arrives == delivered = NoDelivery /\ delivered' # NoDelivery
\* this step sends the request r
Sends(r) == CopiesIn(r, inflight') > CopiesIn(r, inflight)
AllAbsent(ls) == \A k \in StorageKeys : ls[k] = Absent

\* C1: in Basic or Hybrid mode a 401 or 403 without the opt-out header that arrives
\* while the current path is neither whitelisted nor the login surface clears every
\* credential record, persists the path with its query string as the return target
\* and moves to the login surface with the expired flag.
C1_InvalidationRedirects ==
    [][ ( /\ Arrives
          /\ delivered'.status \in { 401, 403 }
          /\ AUTH_MODE \in { "basic", "hybrid" }
          /\ delivered'.req.skip # One
          /\ ~ExemptPath(location.pathname) )
        => ( /\ AllAbsent(localStorage')
             /\ defaultAuth' = NoHeader
             /\ sessionStorage' = location.pathname \o location.search
             /\ Href(location') = BASE_URL \o ProfileExpired ) ]_vars

C1_Witness ==
    /\ ENV_AUTH_MODE = "basic"
    /\ ENV_BASE = Base_app
    /\ delivered.status = 403
    /\ delivered.req.skip = <<>>
    /\ delivered.req.auth = BasicHeader(U_bob, PW_y)
    /\ AllAbsent(localStorage)
    /\ sessionStorage = BASE_URL \o P_edit \o Q_tab
    /\ Href(location) = BASE_URL \o ProfileExpired

\* C2 (as stated): in Basic mode the verification request of login(identity, secret)
\* carries exactly that identity and secret, whatever the credential store holds.
C2_LoginCarriesItsOwnPair ==
    \A r \in BagToSet(inflight) :
        (AUTH_MODE = "basic" /\ r.kind = "login") => r.auth = BasicHeader(r.u, r.p)

C4_NoRedirectOnExpiredSurface ==
    [][ ( /\ Arrives
          /\ delivered'.status \in { 401, 403 }
          /\ AUTH_MODE # "local"
          /\ delivered'.req.skip # One
          /\ Href(location) = BASE_URL \o ProfileExpired )
        => ( location' = location /\ sessionStorage' = sessionStorage ) ]_vars

C4_Witness ==
    /\ AUTH_MODE # "local"
    /\ hist.failures >= 2
    /\ hist.redirects = 1
    /\ delivered.status = 401
    /\ delivered.req.skip # One
    /\ Href(location) = BASE_URL \o ProfileExpired
    /\ sessionStorage = BASE_URL \o P_edit \o Q_tab

\* C5 (as stated): after a login on the login surface that found both an in-memory
\* target and a persisted return path, once the resolvers have run the visitor is at
\* the in-memory target and the persisted return path is still stored.
C5_InMemoryTargetWins ==
    (hist.target # NoPath /\ Idle /\ form.ok = 0 /\ ~effectPending)
        => (location.pathname = hist.target /\ sessionStorage # NoPath)

\* the destination the resolution order names: the in-memory target, else the
\* persisted return path, else the default
Resolved(loc, ss, default) ==
    IF loc.from # NoPath THEN loc.from ELSE IF ss # NoPath THEN ss ELSE default

\* C6 (as stated): every post-login resolution goes to the in-memory target if there
\* is one, else to the persisted return path if there is one, else to the default.
C6_ResolutionOrder ==
    [][ (form.ok > 0 /\ form'.ok < form.ok)
        => Href(location') = Resolved(location, sessionStorage, P_home) ]_vars

\* a record whose expiry is a number not after the time t
ExpiredBy(raw, t) == raw.t = "obj" /\ raw.exp.k = "num" /\ raw.exp.v <= t

\* C7 (as stated): a record read when expiresAt <= now, the boundary included, is
\* reported absent and its entry is gone when the read returns; for the Basic record
\* under either key and for the Local record.
C7_ExpiredIsPurged ==
    /\ ( /\ readResult.op = "basic"
         /\ readResult.pre[AUTH_BASIC_KEY_SECOND] = Absent
         /\ ExpiredBy(readResult.pre[AUTH_BASIC_KEY_PRIMARY], readResult.at) )
       => (readResult.val = NoRecord /\ readResult.post[AUTH_BASIC_KEY_PRIMARY] = Absent)
    /\ ( /\ readResult.op = "basic"
         /\ readResult.pre[AUTH_BASIC_KEY_PRIMARY] = Absent
         /\ ExpiredBy(readResult.pre[AUTH_BASIC_KEY_SECOND], readResult.at) )
       => (readResult.val = NoRecord /\ readResult.post[AUTH_BASIC_KEY_SECOND] = Absent)
    /\ ( /\ readResult.op = "local"
         /\ ExpiredBy(readResult.pre[AUTH_LOCAL_KEY], readResult.at) )
       => (readResult.val = NoRecord /\ readResult.post[AUTH_LOCAL_KEY] = Absent)

MissingOrEmpty(f) == f.k = "missing" \/ (f.k = "str" /\ f.v = <<>>)
\* unparsable text, or an object without identity, without secret (Basic shape), or
\* whose expiry is missing or not a number
InvalidBasic(raw) ==
    \/ raw.t = "garbage"
    \/ raw.t = "obj" /\ ( \/ MissingOrEmpty(raw.username)
                          \/ MissingOrEmpty(raw.password)
                          \/ raw.exp.k # "num" )
InvalidLocal(raw) ==
    \/ raw.t = "garbage"
    \/ raw.t = "obj" /\ (MissingOrEmpty(raw.username) \/ raw.exp.k # "num")

\* C8 (as stated): a structurally invalid entry is reported absent by the read and
\* its storage entry is deleted.
C8_InvalidIsPurged ==
    /\ ( /\ readResult.op = "basic"
         /\ readResult.pre[AUTH_BASIC_KEY_SECOND] = Absent
         /\ InvalidBasic(readResult.pre[AUTH_BASIC_KEY_PRIMARY]) )
       => (readResult.val = NoRecord /\ readResult.post[AUTH_BASIC_KEY_PRIMARY] = Absent)
    /\ ( /\ readResult.op = "local"
         /\ InvalidLocal(readResult.pre[AUTH_LOCAL_KEY]) )
       => (readResult.val = NoRecord /\ readResult.post[AUTH_LOCAL_KEY] = Absent)

\* the request r carries the pair of the Basic record that is persisted
CarriesPersisted(r) ==
    /\ localStorage'[AUTH_BASIC_KEY_PRIMARY].t = "obj"
    /\ r.auth = RecordHeader(localStorage'[AUTH_BASIC_KEY_PRIMARY])

\* C9 (as stated): in Basic and Hybrid mode every request sent after a login has
\* succeeded, and before a logout or an invalidation, carries the pair of the
\* persisted record; a Hybrid login through the Local fallback included.
C9_AfterAnyLogin ==
    [][ \A r \in BagToSet(inflight') :
            (Sends(r) /\ AUTH_MODE # "local" /\ hist.login # "none")
                => CarriesPersisted(r) ]_vars

\* C9 (amended): in Basic and Hybrid mode every request sent after a login that
\* succeeded through the remote verification, and before a logout or an invalidation,
\* carries the identity and secret of that login, which are those of the persisted
\* record.
C9_AfterRemoteLogin ==
    [][ \A r \in BagToSet(inflight') :
            (Sends(r) /\ AUTH_MODE # "local" /\ hist.login = "remote")
                => (CarriesPersisted(r) /\ r.auth = BasicHeader(hist.u, hist.p)) ]_vars

C9_Witness ==
    /\ AUTH_MODE = "hybrid"
    /\ hist.login = "remote"
    /\ hist.u = U_ab
    /\ \E r \in BagToSet(inflight) : r.kind = "api" /\ r.auth = BasicHeader(U_ab, PW_x)
    /\ localStorage[AUTH_BASIC_KEY_PRIMARY].t = "obj"

\* C10: in Local mode no request in flight carries an Authorization header.
C10_LocalSendsNoCredentials ==
    AUTH_MODE = "local" => \A r \in BagToSet(inflight) : r.auth = NoHeader

C10_Witness ==
    /\ AUTH_MODE = "local"
    /\ auth.isAuthed
    /\ localStorage[AUTH_BASIC_KEY_PRIMARY] = BasicJson(U_bob, PW_y, Later)
    /\ localStorage[AUTH_LOCAL_KEY].t = "obj"
    /\ InflightCount = 2

\* no key holds a Basic record that is still running at the time t
NoLiveBasic(ls, t) ==
    \A k \in { AUTH_BASIC_KEY_PRIMARY, AUTH_BASIC_KEY_SECOND } :
        ls[k] = Absent \/ (ls[k].t = "obj" /\ ls[k].exp.k = "num" /\ ls[k].exp.v < t)

\* C11 (as stated): in Basic or Hybrid mode a request sent while the stored Basic
\* record is absent or has expired carries no Authorization header, also when a
\* bootstrap or login earlier in the page session set the client's default header.
C11_NoRecordNoCredentials ==
    [][ \A r \in BagToSet(inflight') :
            (Sends(r) /\ r.kind # "login" /\ AUTH_MODE # "local"
                /\ NoLiveBasic(localStorage, now))
                => r.auth = NoHeader ]_vars

\* this step is the return of a login whose verification request was answered
LoginReturns == delivered.req.kind = "login" /\ delivered' = NoDelivery
LoginSucceeds(u) ==
    /\ form'.ok = form.ok + 1
    /\ auth'.isAuthed
    /\ auth'.me = LocalMe(u)
    /\ localStorage'[AUTH_LOCAL_KEY] = LocalJson(u, now + 7 * DAY_MS)
LoginFails ==
    /\ form'.fail = form.fail + 1
    /\ ~auth'.isAuthed
    /\ auth'.status = "failed"
    /\ localStorage' = localStorage
    /\ defaultAuth' = defaultAuth

\* C12 (as stated): in Hybrid mode a login whose remote verification fails, by
\* rejection or by no response, succeeds with the placeholder profile and a Local
\* record when the identity has length >= 3, and fails with nothing persisted when
\* the identity is shorter.
C12_FallbackByLength ==
    [][ (LoginReturns /\ AUTH_MODE = "hybrid" /\ delivered.status # 200)
        => IF Len(delivered.req.u) >= 3 THEN LoginSucceeds(delivered.req.u)
           ELSE LoginFails ]_vars

\* C12 (amended): the same, with the length of the identity taken after its
\* surrounding white space is removed.
C12_FallbackByTrimmedLength ==
    [][ (LoginReturns /\ AUTH_MODE = "hybrid" /\ delivered.status # 200)
        => IF Len(Trim(delivered.req.u)) >= 3 THEN LoginSucceeds(delivered.req.u)
           ELSE LoginFails ]_vars

C12_Witness ==
    /\ AUTH_MODE = "hybrid"
    /\ hist.login = "local"
    /\ auth.isAuthed
    /\ auth.me = LocalMe(U_bob)
    /\ localStorage[AUTH_LOCAL_KEY] = LocalJson(U_bob, now + 7 * DAY_MS)
    /\ localStorage[AUTH_BASIC_KEY_PRIMARY] = Absent
    /\ form.ok = 1

\* C13: in Basic mode a login whose verification fails writes nothing: the answer
\* and the return of the login add no record and set no default header, and the
\* session is not authenticated by it.
C13_FailedBasicLoginWritesNothing ==
    [][ /\ ( /\ Arrives
             /\ delivered'.req.kind = "login"
             /\ AUTH_MODE = "basic"
             /\ delivered'.status # 200 )
           => ( /\ \A k \in StorageKeys : localStorage'[k] \in { localStorage[k], Absent }
                /\ defaultAuth' \in { defaultAuth, NoHeader } )
        /\ (LoginReturns /\ AUTH_MODE = "basic" /\ delivered.status # 200)
           => LoginFails ]_vars

C13_Witness ==
    /\ AUTH_MODE = "basic"
    /\ auth.status = "failed"
    /\ form.fail = 1
    /\ localStorage = BobStore
    /\ defaultAuth = BasicHeader(U_bob, PW_y)

\* C14: in every mode a login that fails leaves the session with no profile, not
\* authenticated, status failed and a non-empty error message.
C14_FailedLoginState ==
    [][ form'.fail > form.fail
        => ( /\ auth'.me = NoProfile
             /\ ~auth'.isAuthed
             /\ auth'.status = "failed"
             /\ auth'.error # NoError ) ]_vars

C14_Witness ==
    /\ AUTH_MODE = "local"
    /\ form.fail = 1
    /\ auth.status = "failed"
    /\ auth.error = ERR_LOGIN
    /\ auth.me = NoProfile
    /\ AllAbsent(localStorage)

LocalLoginSucceeds(u) ==
    /\ auth'.isAuthed
    /\ auth'.me = LocalMe(u)
    /\ form'.ok = form.ok + 1
LocalLoginFails ==
    /\ ~auth'.isAuthed
    /\ form'.fail = form.fail + 1
    /\ localStorage' = localStorage

\* C15 (as stated): in Local mode a login sends no request; with an identity of at
\* least 3 characters it succeeds with the placeholder profile, whatever the secret,
\* and with a shorter identity it fails and writes no record.
C15_LocalLoginByLength ==
    [][ \A u \in LoginIdentities, p \in LoginSecrets :
            (AUTH_MODE = "local" /\ LoginSubmit(u, p))
            => ( /\ inflight' = inflight
                 /\ IF Len(u) >= 3 THEN LocalLoginSucceeds(u) ELSE LocalLoginFails ) ]_vars

\* C15 (amended): the same, with the length of the identity taken after its
\* surrounding white space is removed.
C15_LocalLoginByTrimmedLength ==
    [][ \A u \in LoginIdentities, p \in LoginSecrets :
            (AUTH_MODE = "local" /\ LoginSubmit(u, p))
            => ( /\ inflight' = inflight
                 /\ IF Len(Trim(u)) >= 3 THEN LocalLoginSucceeds(u) ELSE LocalLoginFails ) ]_vars

C15_Witness ==
    /\ AUTH_MODE = "local"
    /\ auth.isAuthed
    /\ auth.me = LocalMe(U_bob)
    /\ hist.login = "local"
    /\ hist.p = <<>>
    /\ localStorage[AUTH_LOCAL_KEY] = LocalJson(U_bob, now + 7 * DAY_MS)
    /\ inflight = EmptyBag
    /\ form.ok = 1

\* a Local record that is well formed and still running at the time t
ValidLocalAt(raw, t) ==
    /\ raw.t = "obj"
    /\ raw.username.k = "str" /\ raw.username.v # <<>>
    /\ raw.exp.k = "num" /\ t < raw.exp.v
\* this step is init's own end: at once in Local mode, else after the silent fetch
LocalInitRuns == pc = "boot" /\ pc' = "run" /\ AUTH_MODE = "local"
InitReturns == delivered.req.kind = "init" /\ delivered' = NoDelivery
\* init ends authenticated exactly when ok, and otherwise quietly
InitEnds(ok) ==
    /\ auth'.isAuthed = ok
    /\ ~ok => ( /\ auth'.me = NoProfile
                /\ auth'.error = NoError
                /\ auth'.status # "failed" )

C17_FailedInitIsSilent ==
    [][ /\ (Arrives /\ delivered'.req.kind = "init" /\ delivered'.status # 200)
           => location' = location
        /\ (InitReturns /\ delivered.status # 200)
           => (location' = location /\ auth'.error = NoError) ]_vars

\* C18: in Basic mode a startup that finds only Basic records that expired before
\* it deletes them, leaves the client's default header unset, sends the silent
\* fetch without credentials and, the fetch being refused, ends unauthenticated.
C18_StaleBootstrap ==
    [][ /\ ( /\ pc = "boot" /\ pc' = "run"
             /\ AUTH_MODE = "basic"
             /\ localStorage[AUTH_BASIC_KEY_PRIMARY] # Absent
             /\ NoLiveBasic(localStorage, now) )
           => ( /\ localStorage'[AUTH_BASIC_KEY_PRIMARY] = Absent
                /\ localStorage'[AUTH_BASIC_KEY_SECOND] = Absent
                /\ defaultAuth' = NoHeader
                /\ ~auth'.isAuthed
                /\ \A r \in BagToSet(inflight') : r.auth = NoHeader )
        /\ ( /\ InitReturns
             /\ AUTH_MODE = "basic"
             /\ delivered.req.auth = NoHeader
             /\ delivered.status # 200 )
           => (~auth'.isAuthed /\ defaultAuth' = defaultAuth) ]_vars

C18_Witness ==
    /\ AUTH_MODE = "basic"
    /\ pc = "run"
    /\ delivered = NoDelivery
    /\ inflight = EmptyBag
    /\ localStorage = Store(Absent, Absent, LocalJson(U_bob, DAY_MS - 1))
    /\ defaultAuth = NoHeader
    /\ ~auth.isAuthed
    /\ auth.status = "idle"

\* C19: in Basic or Hybrid mode a 401 or 403 without the opt-out header that arrives
\* while the current path is whitelisted or is the login surface neither navigates
\* nor writes a return target, and still clears the credentials.
C19_ExemptPathNoRedirect ==
    [][ ( /\ Arrives
          /\ delivered'.status \in { 401, 403 }
          /\ AUTH_MODE \in { "basic", "hybrid" }
          /\ delivered'.req.skip # One
          /\ ExemptPath(location.pathname) )
        => ( /\ location' = location
             /\ sessionStorage' = sessionStorage
             /\ AllAbsent(localStorage')
             /\ defaultAuth' = NoHeader ) ]_vars

C19_Witness ==
    /\ AUTH_MODE \in { "basic", "hybrid" }
    /\ delivered.status = 401
    /\ delivered.req.skip = <<>>
    /\ delivered.req.auth = BasicHeader(U_bob, PW_y)
    /\ location.pathname = BASE_URL \o P_register
    /\ sessionStorage = NoPath
    /\ AllAbsent(localStorage)
    /\ defaultAuth = NoHeader

\* C20: in Local mode a 401 or 403 changes nothing: the location, the credential
\* records, the return target and the default header stay as they were, and the
\* error reaches the caller.
C20_LocalIgnoresAuthErrors ==
    [][ ( /\ Arrives
          /\ delivered'.status \in { 401, 403 }
          /\ AUTH_MODE = "local" )
        => ( /\ location' = location
             /\ localStorage' = localStorage
             /\ sessionStorage' = sessionStorage
             /\ defaultAuth' = defaultAuth
             /\ inflight' (+) SetToBag({ delivered'.req }) = inflight ) ]_vars

C20_Witness ==
    /\ AUTH_MODE = "local"
    /\ delivered.status = 403
    /\ localStorage = FullStore
    /\ Href(location) = BASE_URL \o P_edit \o Q_tab
    /\ sessionStorage = NoPath
    /\ defaultAuth = NoHeader

\* C21: in Basic or Hybrid mode a 401 or 403 answer to a request that carried the
\* opt-out header moves nothing: the location, the credential records, the default
\* header and the return target stay as they were.
C21_OptOutChangesNothing ==
    [][ ( /\ Arrives
          /\ delivered'.status \in { 401, 403 }
          /\ AUTH_MODE \in { "basic", "hybrid" }
          /\ delivered'.req.skip = One )
        => ( /\ location' = location
             /\ localStorage' = localStorage
             /\ defaultAuth' = defaultAuth
             /\ sessionStorage' = sessionStorage ) ]_vars

C21_Witness ==
    /\ AUTH_MODE = "hybrid"
    /\ delivered.status = 403
    /\ delivered.req.kind = "api"
    /\ delivered.req.skip = One
    /\ delivered.req.auth = BasicHeader(U_bob, PW_y)
    /\ localStorage = FullStore
    /\ defaultAuth = BasicHeader(U_bob, PW_y)
    /\ Href(location) = BASE_URL \o P_edit \o Q_tab
    /\ sessionStorage = NoPath

\* the path is the network-unavailable view
OnNetworkView(path) == FirstSegment(RelPath(path)) = Tail(P_network)

OnErrorView(path) == FirstSegment(RelPath(path)) = Tail(P_error)
\* the error view coded with the status
ErrorView(status) == BASE_URL \o P_error \o Slash \o NumToStr(status)

\* C23: an answer whose status is neither 401 nor 403 navigates exactly when the
\* status is one of 404, 409, 418, 429, 500, 502, 503, 504 and the current path is
\* not an error view, and then to the error view coded with the status; any other
\* status navigates nowhere.
C23_RecognizedStatusRedirects ==
    [][ ( /\ Arrives
          /\ delivered'.status \notin { 200, NetworkError, 401, 403 } )
        => ( /\ (location' # location)
                    <=> ( /\ delivered'.status \in { 404, 409, 418, 429, 500, 502, 503, 504 }
                          /\ ~OnErrorView(location.pathname) )
             /\ location' # location => Href(location') = ErrorView(delivered'.status)
             /\ localStorage' = localStorage
             /\ sessionStorage' = sessionStorage
             /\ defaultAuth' = defaultAuth ) ]_vars

C23_Witness ==
    /\ ENV_BASE = Base_app
    /\ delivered.status = 503
    /\ Href(location) = BASE_URL \o P_error \o Slash \o << "4", "1", "8" >>
    /\ \E r \in BagToSet(inflight) : r.kind = "api"

\* C24: every failed request is re-rejected to its caller with the error of its
\* answer, in every branch of the classifier, whatever side effect was performed.
C24_AlwaysRejected ==
    [][ Arrives
        => \A status \in Outcomes \ { 200 } :
              Respond(delivered'.req, status)
              => (delivered'.status = status /\ delivered'.settled = "rejected") ]_vars

C24_Witness ==
    /\ AUTH_MODE = "basic"
    /\ delivered.settled = "rejected"
    /\ delivered.status = 401
    /\ delivered.req.skip = <<>>
    /\ delivered.req.auth = BasicHeader(U_bob, PW_y)
    /\ AllAbsent(localStorage)
    /\ defaultAuth = NoHeader
    /\ sessionStorage = BASE_URL \o P_edit \o Q_tab
    /\ Href(location) = BASE_URL \o ProfileExpired

\* C25: the persisted return path is consumed at most once: after saveReturnTo(p)
\* the first consumeReturnTo returns p (unless the profile page's effect took it
\* before) and removes the entry, and every later consumeReturnTo, with no save in
\* between, returns absent.
C25_ConsumedAtMostOnce ==
    /\ (returned.n = 1 /\ ~returned.effect) => returned.val = returned.saved
    /\ returned.n = 2 => returned.val = NoPath
    /\ returned.n >= 1 => sessionStorage = NoPath
    /\ returned.effect => sessionStorage = NoPath

C25_Witness ==
    /\ ENV_BASE = Base_app
    /\ returned.saved = P_edit \o Q_tab
    /\ returned.n = 2
    /\ returned.val = NoPath
    /\ ~returned.effect
    /\ sessionStorage = NoPath

\* C26: in every reachable state of the session, after any interleaving of init,
\* login, logout and setMe outcomes, isAuthed is true exactly when the profile is
\* not null.
C26_AuthedIffProfile == auth.isAuthed <=> auth.me # NoProfile

C26_Witness ==
    /\ AUTH_MODE = "basic"
    /\ auth.status = "succeeded"
    /\ auth.me = NoProfile
    /\ ~auth.isAuthed
    /\ hist.login = "remote"
    /\ defaultAuth = BasicHeader(U_bob, PW_x)

\* C27: the mode held by the session state is the configured AUTH_MODE in every
\* reachable state; no init, login, logout or setMe outcome changes it.
C27_ModeIsConfigured == auth.mode = AUTH_MODE

C27_Witness ==
    /\ AUTH_MODE = "hybrid"
    /\ auth.mode = "hybrid"
    /\ auth.isAuthed
    /\ auth.me = Profile(7, ServerName)
    /\ auth.status = "idle"
    /\ Href(location) = P_home
    /\ AllAbsent(localStorage)

\* C28: after a logout, in every mode, the Local key and both Basic keys are absent,
\* the default Authorization header of the shared client is unset, and the session
\* state has no profile, is not authenticated and has status idle.
C28_LogoutClearsEverything ==
    [][ Logout
        => ( /\ AllAbsent(localStorage')
             /\ defaultAuth' = NoHeader
             /\ auth'.me = NoProfile
             /\ ~auth'.isAuthed
             /\ auth'.status = "idle" ) ]_vars

C28_Witness ==
    /\ AUTH_MODE = "hybrid"
    /\ pc = "run"
    /\ hist = NoHist
    /\ Href(location) = P_home
    /\ auth = initialState
    /\ AllAbsent(localStorage)
    /\ defaultAuth = NoHeader
    /\ \E r \in BagToSet(inflight) : r.kind = "api" /\ r.auth = BasicHeader(U_ab, PW_x)

\* C29: a response that returns when the credentials are already absent (a logout
\* completed while the request was in flight) is classified by the ordinary rules and
\* rejected to its caller: the clearing repeats without effect, and a 401 outside
\* Local mode still saves the return path and navigates from a path that is not
\* exempt.
C29_ResponseAfterLogout ==
    [][ \A r \in BagToSet(inflight), status \in SessionOutcomes \ { 200 } :
            ( /\ AllAbsent(localStorage)
              /\ defaultAuth = NoHeader
              /\ Arrives
              /\ Respond(r, status) )
            => ( /\ delivered' = [req |-> r, status |-> status, settled |-> "rejected"]
                 /\ localStorage' = localStorage
                 /\ defaultAuth' = defaultAuth
                 /\ IF /\ status \in { 401, 403 }
                       /\ AUTH_MODE # "local"
                       /\ r.skip # One
                       /\ ~ExemptPath(location.pathname)
                    THEN /\ Href(location') = BASE_URL \o ProfileExpired
                         /\ sessionStorage' = location.pathname \o location.search
                    ELSE /\ location' = location
                         /\ sessionStorage' = sessionStorage ) ]_vars

C29_Witness ==
    /\ AUTH_MODE = "basic"
    /\ auth.status = "idle"
    /\ ~auth.isAuthed
    /\ delivered.status = 401
    /\ delivered.settled = "rejected"
    /\ delivered.req.kind = "api"
    /\ delivered.req.auth = BasicHeader(U_bob, PW_x)
    /\ AllAbsent(localStorage)
    /\ sessionStorage = P_home
    /\ Href(location) = ProfileExpired

\* the logins started from the form and not yet finished: verification requests in
\* flight or answered, and settled logins whose continuation in the form has not run
PendingLogins ==
    LET logins == { r \in BagToSet(inflight) : r.kind = "login" }
        Sum[S \in SUBSET logins] ==
            IF S = {} THEN 0
            ELSE LET r == CHOOSE x \in S : TRUE IN CopiesIn(r, inflight) + Sum[S \ { r }]
    IN  Sum[logins] + (IF delivered.req.kind = "login" THEN 1 ELSE 0) + form.ok + form.fail

\* C30 (as stated): while a login started from the form is pending no second login
\* can be started from it, by the button or by the Enter key, so at most one login is
\* pending at any time.
C30_OneLoginAtATime == PendingLogins <= 1

\* C31 (as stated): a failure of the durable store is never thrown to the caller of a
\* credential read, save or clear (the startup among the callers), and a login whose
\* verification succeeded does not fail because the record could not be written.
C31_StorageFailuresRecovered ==
    [][ /\ ~readResult'.thrown
        /\ pc' # "crashed"
        /\ (LoginReturns /\ delivered.status = 200) => auth'.isAuthed ]_vars

\* a Basic entry that validates at the time t, and one that does not, leaving aside
\* the entries whose expiry is the instant t itself, is missing or is not a number
ValidatesAt(raw, t) ==
    /\ raw.t = "obj"
    /\ raw.username.k = "str" /\ raw.username.v # <<>>
    /\ raw.password.k = "str" /\ raw.password.v # <<>>
    /\ raw.exp.k = "num" /\ raw.exp.v > t
FailsAt(raw, t) ==
    \/ raw.t \in { "absent", "empty", "garbage", "null" }
    \/ raw.t = "obj" /\ ( \/ MissingOrEmpty(raw.username)
                          \/ MissingOrEmpty(raw.password)
                          \/ raw.exp.k = "num" /\ raw.exp.v < t )

InitThunk == InitWith(Modes, { Base_root }, { NoStore, BobStore }, { P_profile }, { NoPath })
NextThunk ==
    \/ Startup
    \/ \E u \in LoginIdentities, p \in LoginSecrets : login(u, p)
    \/ \E r \in BagToSet(inflight), status \in LoginOutcomes : Respond(r, status)
    \/ ContinueApi
    \/ ContinueInit
    \/ ContinueLogin
    \/ FormContinueOk
    \/ FormContinueFail
    \/ ProfileEffect
    \/ ExpiredEffect
SpecThunk == InitThunk /\ [][NextThunk]_vars

\* C33 (as stated): in hybrid mode a login with an empty secret sends no request and
\* is settled at once the way a local login is settled.
C33_EmptySecretStaysLocal ==
    [][ \A u \in LoginIdentities :
            (AUTH_MODE = "hybrid" /\ login(u, <<>>))
            => /\ inflight' = inflight
               /\ auth'.status # "loading" ]_vars

(***************************************************************************)
(* updateUser                                                               *)
(***************************************************************************)

\* updateUser's catch: code && code !== 404 && code !== 405 with
\* code = err?.response?.status, undefined when no response came
Rethrows(status) == status # NetworkError /\ status \notin { 404, 405 }

\* ProfilePage save: dispatch(updateProfile(p)), updateUser up to the await of api.put
UpdateUser ==
    /\ Quiet
    /\ profile.call = "none"
    /\ InflightCount < MaxInflight
    /\ LET i == RequestInterceptor(localStorage, MergedAuth(NoHeader, defaultAuth))
           r == Req("update", i.auth, <<>>, <<>>, <<>>)
       IN  /\ localStorage' = i.ls
           /\ inflight' = inflight (+) SetToBag({ r })
    /\ profile' = [profile EXCEPT !.call = "put", !.thrown = FALSE]
    /\ UNCHANGED << ENV_AUTH_MODE, ENV_BASE, faults, article, img, returned, readResult, now,
                    sessionStorage, defaultAuth, location, auth, pc, form, effectPending,
                    delivered, hist >>

\* updateUser after the await of api.put: the data, the rethrown error, or
\* myProfileSilent() sent for the client-side merge
ContinueUpdate ==
    /\ delivered.req.kind = "update"
    /\ delivered' = NoDelivery
    /\ IF delivered.settled = "fulfilled"
       THEN /\ profile' = [data |-> "server", call |-> "none", thrown |-> FALSE]
            /\ UNCHANGED << localStorage, inflight >>
       ELSE IF Rethrows(delivered.status)
       THEN /\ profile' = [profile EXCEPT !.call = "none", !.thrown = TRUE]
            /\ UNCHANGED << localStorage, inflight >>
       ELSE LET i == RequestInterceptor(localStorage, MergedAuth(NoHeader, defaultAuth))
                r == Req("silent", i.auth, One, <<>>, <<>>)
            IN  /\ localStorage' = i.ls
                /\ inflight' = inflight (+) SetToBag({ r })
                /\ profile' = [profile EXCEPT !.call = "fallback"]
    /\ UNCHANGED << ENV_AUTH_MODE, ENV_BASE, faults, article, img, returned, readResult, now,
                    sessionStorage, defaultAuth, location, auth, pc, form, effectPending, hist >>

\* updateUser after the await of myProfileSilent: { ...base, ...p }, or its error
ContinueSilent ==
    /\ delivered.req.kind = "silent"
    /\ delivered' = NoDelivery
    /\ profile' = IF delivered.settled = "fulfilled"
                  THEN [data |-> "merged", call |-> "none", thrown |-> FALSE]
                  ELSE [profile EXCEPT !.call = "none", !.thrown = TRUE]
    /\ UNCHANGED << ENV_AUTH_MODE, ENV_BASE, faults, article, img, returned, readResult, now,
                    localStorage, sessionStorage, defaultAuth, location, auth, inflight, pc,
                    form, effectPending, hist >>

\* profile updates answered in every way the catch of updateUser tells apart
UpdateOutcomes == { 200, NetworkError, 401, 404, 405, 500 }
InitUpdate == InitWith(Modes, { Base_root }, { NoStore, BobStore }, { P_profile }, { NoPath })
NextUpdate ==
    \/ Startup
    \/ UpdateUser
    \/ \E r \in BagToSet(inflight), status \in UpdateOutcomes : Respond(r, status)
    \/ ContinueInit
    \/ ContinueUpdate
    \/ ContinueSilent
    \/ ProfileEffect
SpecUpdate == InitUpdate /\ [][NextUpdate]_vars

\* C34 (as stated): a failed PUT /updateUser is followed by the silent profile fetch
\* when the answer is 404 or 405, and by the rethrown error with no further request
\* for every other failure, a failure without a response included.
C34_FallbackOnlyOn404Or405 ==
    [][ ( /\ delivered.req.kind = "update"
          /\ delivered' = NoDelivery
          /\ delivered.settled = "rejected" )
        => IF delivered.status \in { 404, 405 }
           THEN profile'.call = "fallback" /\ inflight' # inflight
           ELSE profile'.thrown /\ profile'.call = "none" /\ inflight' = inflight ]_vars

(***************************************************************************)
(* addContent                                                               *)
(***************************************************************************)

\* the optional argument position: left out, or a number
Omitted == [given |-> FALSE, n |-> 0]
Given(n) == [given |-> TRUE, n |-> n]

\* Array.prototype.slice(start, end): a negative index counts from the end, and
\* both are cut to 0..length
RelIndex(i, len) ==
    IF i < 0 THEN (IF len + i > 0 THEN len + i ELSE 0)
    ELSE (IF i < len THEN i ELSE len)
Slice(s, start, end) ==
    LET from == RelIndex(start, Len(s))
        to == RelIndex(end, Len(s))
    IN  IF from < to THEN SubSeq(s, from + 1, to) ELSE <<>>

AddContentPosRaw(position, len) == IF position.given THEN position.n ELSE len
\* Number.isFinite(Number(position)) && position !== undefined
\*   ? Math.max(0, Number(position)) : exist.length
AddContentPos(position, len) ==
    IF position.given THEN (IF position.n > 0 THEN position.n ELSE 0) ELSE len

\* [...exist.slice(0, pos), ...blocks, ...exist.slice(pos)]
AddContentNext(exist, blocks, position) ==
    LET pos == AddContentPos(position, Len(exist))
    IN  Slice(exist, 0, pos) \o blocks \o Slice(exist, pos, Len(exist))

\* addContent(id, blocks, position) up to its first await: getArticle(id) is sent
AddContent(blocks, position) ==
    /\ article.call = "none"
    /\ Len(article.content) + Len(blocks) <= MaxBlocks
    /\ article' = [article EXCEPT !.call = "get", !.blocks = blocks, !.position = position,
                                  !.exist = <<>>, !.sent = <<>>]
    /\ UNCHANGED << ENV_AUTH_MODE, ENV_BASE, faults, profile, img, returned, readResult, now,
                    localStorage, sessionStorage, defaultAuth, location, auth, inflight, pc,
                    form, effectPending, delivered, hist >>

\* the article arrives: exist is read, next is built and sent with api.patch
AddContentFetched ==
    /\ article.call = "get"
    /\ article' = [article EXCEPT !.call = "patch", !.exist = article.content,
                       !.sent = AddContentNext(article.content, article.blocks, article.position)]
    /\ UNCHANGED << ENV_AUTH_MODE, ENV_BASE, faults, profile, img, returned, readResult, now,
                    localStorage, sessionStorage, defaultAuth, location, auth, inflight, pc,
                    form, effectPending, delivered, hist >>

\* the server applies PATCH /articles/{id} { mainContent: next }; getArticle(id) is sent
AddContentPatched ==
    /\ article.call = "patch"
    /\ article' = [article EXCEPT !.call = "reget", !.content = article.sent]
    /\ UNCHANGED << ENV_AUTH_MODE, ENV_BASE, faults, profile, img, returned, readResult, now,
                    localStorage, sessionStorage, defaultAuth, location, auth, inflight, pc,
                    form, effectPending, delivered, hist >>

\* the last getArticle(id) returns, or one of the three requests fails and
\* addContent throws
AddContentReturns ==
    /\ article.call \in { "get", "patch", "reget" }
    /\ article' = [article EXCEPT !.call = "none"]
    /\ UNCHANGED << ENV_AUTH_MODE, ENV_BASE, faults, profile, img, returned, readResult, now,
                    localStorage, sessionStorage, defaultAuth, location, auth, inflight, pc,
                    form, effectPending, delivered, hist >>

\* redoContent(id, blocks) applied on the server, by this tab or another one
RedoContent(blocks) ==
    /\ Len(blocks) <= MaxBlocks
    /\ article.content # blocks
    /\ article' = [article EXCEPT !.content = blocks]
    /\ UNCHANGED << ENV_AUTH_MODE, ENV_BASE, faults, profile, img, returned, readResult, now,
                    localStorage, sessionStorage, defaultAuth, location, auth, inflight, pc,
                    form, effectPending, delivered, hist >>

\* articles of zero to two blocks, zero to two blocks added, at every position from
\* below zero to beyond the end
Contents == { <<>>, << "a" >>, << "a", "b" >> }
NewBlocks == { <<>>, << "x" >>, << "x", "y" >> }
Positions == { Omitted } \cup { Given(n) : n \in -2 .. MaxBlocks + 1 }
InitContent ==
    /\ InitCore({ {} }, { "local" }, { Base_root }, { NoStore }, { P_profile }, { NoPath })
    /\ profile = initial
    /\ article \in { [NoArticle EXCEPT !.content = c] : c \in Contents }
    /\ img = NoImg
NextContent ==
    \/ \E blocks \in NewBlocks, position \in Positions : AddContent(blocks, position)
    \/ AddContentFetched
    \/ AddContentPatched
    \/ AddContentReturns
    \/ \E blocks \in Contents : RedoContent(blocks)
SpecContent == InitContent /\ [][NextContent]_vars

\* position cut to 0..len, len when it is left out
ClampedPosition(position, len) ==
    IF ~position.given THEN len
    ELSE IF position.n < 0 THEN 0
    ELSE IF position.n > len THEN len
    ELSE position.n

Url(kind, host, path) == [form |-> kind, host |-> host, path |-> path]
NoUrl == Url("empty", "", <<>>)
PLACEHOLDER == Url("data", "", << "image unavailable" >>)
API_HOST == "localhost:8000"
WP_HOST == "i0.wp.com"

IsLocalishNever(src) == FALSE
\* isLocalish: data:, blob:, /uploads/, /media/, ./, ../, or of the API's origin once
\* resolved against it
IsLocalish(src) ==
    CASE src.form = "empty" -> FALSE
      [] src.form = "data" -> TRUE
      [] src.form = "relative" -> TRUE
      [] src.form = "absolute" -> src.host = API_HOST
      [] OTHER -> FALSE

\* toPixivMirror
ToPixivMirror(u) == [u EXCEPT !.host = "i.pixiv.cat"]

\* toWpProxy: https://i0.wp.com/{host}{pathname}{search}?ssl=1&strip=all, the
\* argument itself when new URL(abs) throws
ToWpProxy(abs) ==
    IF abs.form = "absolute" THEN Url("absolute", WP_HOST, << abs.host >> \o abs.path)
    ELSE abs

\* proxifyImage
ProxifyImage(input) ==
    IF input.form = "empty" THEN PLACEHOLDER
    ELSE IF IsLocalish(input)
    THEN (IF input.form = "relative" THEN Url("absolute", API_HOST, input.path) ELSE input)
    ELSE IF input.form # "absolute" THEN PLACEHOLDER
    ELSE IF input.host = "i.pximg.net" THEN ToPixivMirror(input)
    ELSE input

\* needsCrossOrigin
NeedsCrossOrigin(src) == src.form = "absolute" /\ src.host = WP_HOST

\* <img src={proxifyImage(input)} data-original={input}> as ArticleCard and SmartImg
\* render it, with no data-fallback-step yet
Img(input) ==
    [input |-> input, src |-> ProxifyImage(input), original |-> input, step |-> 0,
     cross |-> NeedsCrossOrigin(ProxifyImage(input)), broken |-> FALSE, errors |-> 0]

\* onImgErrorFallback on one element
OnImgErrorFallback(el) ==
    LET original == IF el.original # NoUrl THEN el.original ELSE el.src
    IN  IF original = NoUrl
        THEN [el EXCEPT !.src = PLACEHOLDER, !.step = 99]
        ELSE IF el.step = 0 /\ ~IsLocalish(original)
        THEN [el EXCEPT !.src = ToWpProxy(original), !.step = 1]
        ELSE [el EXCEPT !.cross = FALSE, !.src = PLACEHOLDER, !.step = 99]

\* the load of image i fails: onError
ImgError(i) ==
    /\ i \in DOMAIN img
    /\ img[i].errors < MaxErrors
    /\ img' = [img EXCEPT ![i] = [OnImgErrorFallback(img[i]) EXCEPT !.errors = @ + 1]]
    /\ UNCHANGED << ENV_AUTH_MODE, ENV_BASE, faults, profile, article, returned, readResult, now,
                    localStorage, sessionStorage, defaultAuth, location, auth, inflight, pc,
                    form, effectPending, delivered, hist >>

\* image i loads: onLoad, setBroken(el.src === PLACEHOLDER)
ImgLoad(i) ==
    /\ i \in DOMAIN img
    /\ img[i].broken # (img[i].src = PLACEHOLDER)
    /\ img' = [img EXCEPT ![i].broken = (img[i].src = PLACEHOLDER)]
    /\ UNCHANGED << ENV_AUTH_MODE, ENV_BASE, faults, profile, article, returned, readResult, now,
                    localStorage, sessionStorage, defaultAuth, location, auth, inflight, pc,
                    form, effectPending, delivered, hist >>

\* a page with two images, each given one of: nothing, an upload of the API, a
\* data: URL, an image of another site, a pixiv image, an unparsable address
ImgInputs ==
    { NoUrl,
      Url("relative", "", << "uploads", "a.png" >>),
      Url("absolute", API_HOST, << "media", "b.png" >>),
      Url("data", "", << "c" >>),
      Url("absolute", "ex.org", << "d.png" >>),
      Url("absolute", "i.pximg.net", << "e.png" >>),
      Url("invalid", "", << "http://" >>) }
InitImg ==
    /\ InitCore({ {} }, { "local" }, { Base_root }, { NoStore }, { P_home }, { NoPath })
    /\ profile = initial
    /\ article = NoArticle
    /\ img \in { << Img(a), Img(b) >> : a, b \in ImgInputs }
NextImg ==
    \/ \E i \in 1 .. 2 : ImgError(i)
    \/ \E i \in 1 .. 2 : ImgLoad(i)
SpecImg == InitImg /\ [][NextImg]_vars

\* what the page was given: an image of another site, an image of the API or of
\* the page itself
ExternalInput(el) == el.input.form = "absolute" /\ el.input.host # API_HOST
LocalInput(el) ==
    \/ el.input.form \in { "data", "relative" }
    \/ el.input.form = "absolute" /\ el.input.host = API_HOST

\* C36: on each load error the fallback step never decreases and is 0, 1 or 99; the
\* first error of an external image puts it on the proxy, the first error of a local
\* image on the placeholder; after two errors the image is the placeholder at step
\* 99, and stays there.
C36_FallbackTerminates ==
    [][ \A i \in DOMAIN img :
            LET el == img[i]
                next == img'[i]
            IN  next.errors = el.errors + 1
                => /\ next.step >= el.step
                   /\ next.step \in { 0, 1, 99 }
                   /\ (el.errors = 0 /\ ExternalInput(el))
                      => (next.step = 1 /\ next.src = Url("absolute", WP_HOST,
                                                          << el.input.host >> \o el.input.path))
                   /\ (el.errors = 0 /\ LocalInput(el))
                      => (next.step = 99 /\ next.src = PLACEHOLDER)
                   /\ next.errors >= 2 => (next.step = 99 /\ next.src = PLACEHOLDER)
                   /\ el.step = 99 => (next.step = 99 /\ next.src = PLACEHOLDER) ]_vars

C36_Witness ==
    /\ img # NoImg
    /\ img[1].input = Url("absolute", "ex.org", << "d.png" >>)
    /\ img[1].errors = MaxErrors
    /\ img[1].src = PLACEHOLDER
    /\ img[1].step = 99
    /\ img[2].input = Url("relative", "", << "uploads", "a.png" >>)
    /\ img[2].errors = 1
    /\ img[2].step = 99

\* C37 (as stated): a session authenticated by a fulfilled login stops being
\* authenticated only by a logout (no login can fail while it lasts: the login
\* surface is not shown); the settling of the startup init does not end it.
C37_LoginOutlivesInit ==
    [][ (auth.isAuthed /\ hist.login # "none" /\ ~auth'.isAuthed) => Logout ]_vars

\* C38 (as stated): the Basic record written by a fulfilled login leaves the store
\* only by a logout, once expired, or by a 401/403 answering a request that carried
\* that record; a 401/403 to a request sent before the login does not delete it.
C38_StaleFailureKeepsRecord ==
    [][ LET rec == localStorage[AUTH_BASIC_KEY_PRIMARY]
        IN  ( /\ hist.login = "remote"
              /\ rec.t = "obj"
              /\ RecordHeader(rec) = BasicHeader(hist.u, hist.p)
              /\ localStorage'[AUTH_BASIC_KEY_PRIMARY] = Absent )
            => \/ Logout
               \/ ExpiredBy(rec, now)
               \/ /\ Arrives
                  /\ delivered'.status \in { 401, 403 }
                  /\ delivered'.req.auth = RecordHeader(rec) ]_vars

\* C39 (as stated): in Basic or Hybrid mode, when a 401/403 makes the response
\* interceptor invalidate the session, the session state is no longer authenticated
\* once the interceptor has run, whether the location changed or not.
C39_InvalidationResetsState ==
    [][ (Arrives /\ Invalidating(delivered'.req, delivered'.status)) => ~auth'.isAuthed ]_vars

\* C40: a failed response that writes the return target writes a path outside the
\* error, network, profile and register families, and a failed response arriving
\* on the login surface or on another exempt path leaves the saved target as it is.
C40_ReturnTargetNeverExempt ==
    [][ Arrives
        => /\ sessionStorage' # sessionStorage
              => ~ExemptPath(ParseHref(sessionStorage').pathname)
           /\ ExemptPath(location.pathname) => sessionStorage' = sessionStorage ]_vars

C40_Witness ==
    /\ sessionStorage = BASE_URL \o P_edit \o Q_tab
    /\ OnProfile(location)
    /\ HasExpiredFlag(location)
    /\ hist.failures >= 2
    /\ hist.redirects = 1
    /\ delivered.status = 403

====
